---------------------------- MODULE Spec2Model ----------------------------
(***************************************************************************)
(* WebScout, the licensed-content harvester of appscroll-backend           *)
(* (src/index.js, lines 647-1318), with the two endpoints in front of it:  *)
(* GET /api/candidates and POST /api/competing-cards.                      *)
(*                                                                         *)
(* Text is a sequence of one-character strings, so that toLowerCase,       *)
(* includes, trim and slice are computed on characters.  A value that is   *)
(* absent upstream (undefined) is the empty sequence.  Template strings    *)
(* whose characters no code inspects are sequences of chunks.              *)
(***************************************************************************)
EXTENDS Integers, Sequences, FiniteSets

(***************************************************************************)
(* Bounds of the model.                                                    *)
(***************************************************************************)
MaxLoad == 3
MaxLimit == 2
MaxNegLimit == 1
MaxSurfaces == 2
MaxCalls == 2
MaxProbeItems == 2

(***************************************************************************)
(* Program constants: the maximum lengths handed to truncate.              *)
(***************************************************************************)
TitleMax == 50
HNTitleMax == 60
ApodDescMax == 100
DescMax == 80

(***************************************************************************)
(* JavaScript string primitives.                                           *)
(***************************************************************************)
LowerChar(c) ==
  CASE c = "A" -> "a" [] c = "B" -> "b" [] c = "C" -> "c" [] c = "D" -> "d"
    [] c = "E" -> "e" [] c = "F" -> "f" [] c = "G" -> "g" [] c = "H" -> "h"
    [] c = "I" -> "i" [] c = "J" -> "j" [] c = "K" -> "k" [] c = "L" -> "l"
    [] c = "M" -> "m" [] c = "N" -> "n" [] c = "O" -> "o" [] c = "P" -> "p"
    [] c = "Q" -> "q" [] c = "R" -> "r" [] c = "S" -> "s" [] c = "T" -> "t"
    [] c = "U" -> "u" [] c = "V" -> "v" [] c = "W" -> "w" [] c = "X" -> "x"
    [] c = "Y" -> "y" [] c = "Z" -> "z" [] OTHER -> c

toLowerCase(t) == [i \in 1..Len(t) |-> LowerChar(t[i])]

includes(t, s) ==
  \E i \in 0..(Len(t) - Len(s)) : SubSeq(t, i + 1, i + Len(s)) = s

RECURSIVE trimStart(_)
trimStart(t) ==
  IF t # <<>> /\ Head(t) = " " THEN trimStart(Tail(t)) ELSE t

RECURSIVE trimEnd(_)
trimEnd(t) ==
  IF t # <<>> /\ t[Len(t)] = " " THEN trimEnd(SubSeq(t, 1, Len(t) - 1)) ELSE t

trim(t) == trimEnd(trimStart(t))

\* slice0 with its end one too far.
sliceOffByOne(a, end) ==
  LET e == IF end < 0 THEN Len(a) + end + 1 ELSE end + 1
  IN  IF e <= 0 THEN <<>> ELSE IF e >= Len(a) THEN a ELSE SubSeq(a, 1, e)

\* Array.prototype.slice(0, end): a negative end counts from the end.
slice0(a, end) ==
  LET e == IF end < 0 THEN Len(a) + end ELSE end
  IN  IF e <= 0 THEN <<>> ELSE IF e >= Len(a) THEN a ELSE SubSeq(a, 1, e)

\* x || dflt on text
orElse(x, dflt) == IF x = <<>> THEN dflt ELSE x

\* String(x) inside a concatenation: an absent value prints as "undefined".
asString(x) == orElse(x, <<"u", "n", "d", "e", "f", "i", "n", "e", "d">>)

\* A chunk of a template string; an empty chunk adds nothing.
chunk(s) == IF s = "" THEN <<>> ELSE <<s>>

(***************************************************************************)
(* License enum and the two license sets.                                  *)
(***************************************************************************)
License == {"PD", "CC0", "CCBY", "CCBYSA", "NASA_PD", "UNKNOWN", "NOT_ALLOWED"}

RENDER_ALLOWED_LICENSES == {"PD", "CC0", "CCBY", "CCBYSA", "NASA_PD"}

ATTRIBUTION_REQUIRED == {"CCBY", "CCBYSA", "NASA_PD"}

(***************************************************************************)
(* Helper functions.                                                       *)
(***************************************************************************)
truncate(str, maxLen) ==
  IF str = <<>> THEN <<>>
  ELSE LET s == trim(str)
       IN  IF Len(s) <= maxLen THEN s
           ELSE SubSeq(s, 1, maxLen - 1) \o <<"...">>

unsafeTerms ==
  << <<"n", "s", "f", "w">>,
     <<"n", "u", "d", "e">>,
     <<"n", "a", "k", "e", "d">>,
     <<"p", "o", "r", "n">>,
     <<"x", "x", "x">>,
     <<"s", "e", "x", "u", "a", "l">>,
     <<"e", "r", "o", "t", "i", "c">>,
     <<"g", "o", "r", "e">>,
     <<"g", "r", "a", "p", "h", "i", "c", " ", "v", "i", "o", "l", "e", "n", "c", "e">>,
     <<"t", "o", "r", "t", "u", "r", "e">>,
     <<"b", "e", "h", "e", "a", "d", "i", "n", "g">>,
     <<"n", "a", "z", "i">>,
     <<"w", "h", "i", "t", "e", " ", "s", "u", "p", "r", "e", "m", "a", "c">>,
     <<"k", "k", "k">>,
     <<"h", "a", "t", "e", " ", "g", "r", "o", "u", "p">> >>

basicSafetyCheck(text) ==
  IF text = <<>> THEN TRUE
  ELSE LET lower == toLowerCase(text)
       IN  \A n \in 1..Len(unsafeTerms) : ~includes(lower, unsafeTerms[n])

\* parseWikimediaLicense without toLowerCase.
parseWikimediaLicenseCaseSensitive(licenseString) ==
  IF licenseString = <<>> THEN "UNKNOWN"
  ELSE LET lower == licenseString
       IN  IF \/ includes(lower, <<"c", "c", "0">>)
              \/ includes(lower, <<"p", "u", "b", "l", "i", "c", " ", "d", "o", "m", "a", "i", "n">>)
              \/ lower = <<"p", "d">>
           THEN "CC0"
           ELSE IF \/ includes(lower, <<"c", "c", "-", "b", "y", "-", "s", "a">>)
                   \/ includes(lower, <<"c", "c", " ", "b", "y", "-", "s", "a">>)
           THEN "CCBYSA"
           ELSE IF \/ includes(lower, <<"c", "c", "-", "b", "y">>)
                   \/ includes(lower, <<"c", "c", " ", "b", "y">>)
           THEN "CCBY"
           ELSE "UNKNOWN"

parseWikimediaLicense(licenseString) ==
  IF licenseString = <<>> THEN "UNKNOWN"
  ELSE LET lower == toLowerCase(licenseString)
       IN  IF \/ includes(lower, <<"c", "c", "0">>)
              \/ includes(lower, <<"p", "u", "b", "l", "i", "c", " ", "d", "o", "m", "a", "i", "n">>)
              \/ lower = <<"p", "d">>
           THEN "CC0"
           ELSE IF \/ includes(lower, <<"c", "c", "-", "b", "y", "-", "s", "a">>)
                   \/ includes(lower, <<"c", "c", " ", "b", "y", "-", "s", "a">>)
           THEN "CCBYSA"
           ELSE IF \/ includes(lower, <<"c", "c", "-", "b", "y">>)
                   \/ includes(lower, <<"c", "c", " ", "b", "y">>)
           THEN "CCBY"
           ELSE "UNKNOWN"

parseEuropeanaRights(rightsUrl) ==
  IF rightsUrl = <<>> THEN "UNKNOWN"
  ELSE LET lower == toLowerCase(rightsUrl)
       IN  IF \/ includes(lower, <<"p", "u", "b", "l", "i", "c", "d", "o", "m", "a", "i", "n">>)
              \/ includes(lower, <<"c", "c", "0">>)
              \/ includes(lower, <<"/", "m", "a", "r", "k", "/">>)
           THEN "CC0"
           ELSE IF includes(lower, <<"b", "y", "-", "s", "a">>)
           THEN "CCBYSA"
           ELSE IF includes(lower, <<"/", "b", "y", "/">>)
           THEN "CCBY"
           ELSE IF \/ includes(lower, <<"i", "n", "-", "c", "o", "p", "y", "r", "i", "g", "h", "t">>)
                   \/ includes(lower, <<"o", "r", "p", "h", "a", "n", "-", "w", "o", "r", "k">>)
           THEN "NOT_ALLOWED"
           ELSE "UNKNOWN"

rightsToString(license) ==
  CASE license = "CCBY" -> "CC BY 4.0"
    [] license = "CCBYSA" -> "CC BY-SA 4.0"
    [] license = "CC0" -> "CC0 Public Domain"
    [] license = "PD" -> "Public Domain"
    [] license = "NASA_PD" -> "NASA/Public Domain"
    [] OTHER -> ""


(***************************************************************************)
(* Upstream data.  One record shape stands for an element of any           *)
(* provider's payload; each fetcher reads the fields its provider has:     *)
(*   id      date / identifier / objectID / id / pageid                    *)
(*   title   title / caption / alt_description                             *)
(*   desc    explanation / dcDescription / description / ImageDescription  *)
(*   media   the image location (or, for a story, its url) is present      *)
(*   open    the item is of the wanted sort: not a video, isPublicDomain,  *)
(*           is_public_domain, content present, type = story               *)
(*   rights  rights statement URL / LicenseShortName                       *)
(*   credit  copyright / dcCreator / user.name / Artist is present         *)
(*   intact  FALSE: the element is null (a malformed payload)              *)
(* A response is [status, items]: status is "ok", "notok" (a non-success   *)
(* HTTP status) or "neterr" (fetch rejects).                               *)
(***************************************************************************)
imageUrl(source, item) == IF item.media THEN <<source, "image", item.id>> ELSE <<>>

creditName(item) == IF item.credit THEN "Ann" ELSE ""

apodAttribution(item) ==
  IF item.credit THEN <<"(c) ", creditName(item), " - NASA APOD">>
  ELSE <<"NASA/Public Domain">>

\* apodLoop outside the try: a broken item is passed over and the loop goes on.
RECURSIVE apodLoopPastBroken(_, _)
apodLoopPastBroken(items, candidates) ==
  IF items = <<>> THEN candidates
  ELSE LET item == Head(items)
       IN  IF ~item.intact \/ ~item.open THEN apodLoopPastBroken(Tail(items), candidates)
           ELSE apodLoopPastBroken(Tail(items), Append(candidates,
                  [id   |-> <<"nasa:apod", item.id>>,
                   u    |-> imageUrl("apod", item),
                   k    |-> "space",
                   ttl  |-> truncate(item.title, TitleMax),
                   desc |-> truncate(item.desc, ApodDescMax),
                   src  |-> "NASA APOD",
                   lic  |-> "NASA_PD",
                   att  |-> apodAttribution(item),
                   link |-> <<"apod.nasa.gov", item.id>>,
                   safe |-> basicSafetyCheck(asString(item.title) \o <<" ">>
                                               \o asString(item.desc))]))

RECURSIVE apodLoop(_, _)
apodLoop(items, candidates) ==
  IF items = <<>> THEN candidates
  ELSE LET item == Head(items)
       IN  IF ~item.intact THEN candidates
           ELSE IF ~item.open THEN apodLoop(Tail(items), candidates)
           ELSE apodLoop(Tail(items), Append(candidates,
                  [id   |-> <<"nasa:apod", item.id>>,
                   u    |-> imageUrl("apod", item),
                   k    |-> "space",
                   ttl  |-> truncate(item.title, TitleMax),
                   desc |-> truncate(item.desc, ApodDescMax),
                   src  |-> "NASA APOD",
                   lic  |-> "NASA_PD",
                   att  |-> apodAttribution(item),
                   link |-> <<"apod.nasa.gov", item.id>>,
                   safe |-> basicSafetyCheck(asString(item.title) \o <<" ">>
                                               \o asString(item.desc))]))

fetchNASAAPOD(limit, response) ==
  IF response.status # "ok" THEN <<>>
  ELSE apodLoop(slice0(response.items, limit), <<>>)

RECURSIVE epicLoop(_, _)
epicLoop(items, candidates) ==
  IF items = <<>> THEN candidates
  ELSE LET item == Head(items)
       IN  IF ~item.intact THEN candidates
           ELSE epicLoop(Tail(items), Append(candidates,
                  [id   |-> <<"nasa:epic", item.id>>,
                   u    |-> <<"epic", "image", item.id>>,
                   k    |-> "earth",
                   ttl  |-> truncate(orElse(item.title,
                              <<"E", "a", "r", "t", "h", " ", "f", "r", "o", "m", " ",
                                "D", "S", "C", "O", "V", "R">>), TitleMax),
                   desc |-> <<"Earth as seen from deep space">>,
                   src  |-> "NASA EPIC",
                   lic  |-> "NASA_PD",
                   att  |-> <<"NASA/DSCOVR EPIC">>,
                   link |-> <<"epic.gsfc.nasa.gov">>,
                   safe |-> TRUE]))

fetchNASAEPIC(limit, response) ==
  IF response.status # "ok" THEN <<>>
  ELSE epicLoop(slice0(response.items, limit), <<>>)

\* objectIds are the ids of the searched works; an element that is not
\* intact is an object request that fails or answers null.
RECURSIVE metLoop(_, _, _)
metLoop(objectIds, candidates, limit) ==
  IF objectIds = <<>> \/ Len(candidates) >= limit THEN candidates
  ELSE LET obj == Head(objectIds)
       IN  IF ~obj.intact THEN metLoop(Tail(objectIds), candidates, limit)
           ELSE IF ~obj.open \/ ~obj.media
           THEN metLoop(Tail(objectIds), candidates, limit)
           ELSE metLoop(Tail(objectIds), Append(candidates,
                  [id   |-> <<"met", obj.id>>,
                   u    |-> imageUrl("met", obj),
                   k    |-> "art",
                   ttl  |-> truncate(obj.title, TitleMax),
                   desc |-> <<IF obj.credit THEN creditName(obj) ELSE "Unknown", ", ">>,
                   src  |-> "The Met Museum",
                   lic  |-> "CC0",
                   att  |-> <<>>,
                   link |-> <<"metmuseum.org", obj.id>>,
                   safe |-> basicSafetyCheck(obj.title)]), limit)

fetchMetMuseum(limit, response) ==
  IF response.status # "ok" THEN <<>>
  ELSE metLoop(slice0(response.items, limit * 3), <<>>, limit)

RECURSIVE articLoop(_, _)
articLoop(data, candidates) ==
  IF data = <<>> THEN candidates
  ELSE LET artwork == Head(data)
       IN  IF ~artwork.intact THEN candidates
           ELSE IF ~artwork.media \/ ~artwork.open
           THEN articLoop(Tail(data), candidates)
           ELSE articLoop(Tail(data), Append(candidates,
                  [id   |-> <<"artic", artwork.id>>,
                   u    |-> imageUrl("artic", artwork),
                   k    |-> "art",
                   ttl  |-> truncate(artwork.title, TitleMax),
                   desc |-> <<IF artwork.credit THEN creditName(artwork) ELSE "Unknown", ", ">>,
                   src  |-> "Art Institute Chicago",
                   lic  |-> "CC0",
                   att  |-> <<>>,
                   link |-> <<"artic.edu/artworks", artwork.id>>,
                   safe |-> basicSafetyCheck(artwork.title)]))

fetchArtInstituteChicago(limit, response) ==
  IF response.status # "ok" THEN <<>>
  ELSE articLoop(response.items, <<>>)

RECURSIVE smithsonianLoop(_, _)
smithsonianLoop(rows, candidates) ==
  IF rows = <<>> THEN candidates
  ELSE LET row == Head(rows)
       IN  IF ~row.intact THEN candidates
           ELSE IF ~row.open \/ ~row.media
           THEN smithsonianLoop(Tail(rows), candidates)
           ELSE smithsonianLoop(Tail(rows), Append(candidates,
                  [id   |-> <<"smithsonian", row.id>>,
                   u    |-> imageUrl("smithsonian", row),
                   k    |-> "culture",
                   ttl  |-> truncate(orElse(row.title,
                              <<"S", "m", "i", "t", "h", "s", "o", "n", "i", "a", "n", " ",
                                "I", "t", "e", "m">>), TitleMax),
                   desc |-> truncate(row.desc, DescMax),
                   src  |-> "Smithsonian",
                   lic  |-> "CC0",
                   att  |-> <<>>,
                   link |-> <<"si.edu/openaccess">>,
                   safe |-> basicSafetyCheck(row.title)]))

\* fetchSmithsonian without the test of the API key.
fetchSmithsonianKeyless(limit, response, env) ==
  IF response.status # "ok" THEN <<>>
  ELSE smithsonianLoop(response.items, <<>>)

fetchSmithsonian(limit, response, env) ==
  IF "SMITHSONIAN_API_KEY" \notin env THEN <<>>
  ELSE IF response.status # "ok" THEN <<>>
  ELSE smithsonianLoop(response.items, <<>>)

\* europeanaAttribution that forgets the share-alike license.
europeanaAttributionByOnly(item, license) ==
  IF license = "CCBY"
  THEN <<IF item.credit THEN creditName(item) ELSE "Unknown", " - ">>
         \o chunk(rightsToString(license))
  ELSE <<>>

europeanaAttribution(item, license) ==
  IF license = "CCBY" \/ license = "CCBYSA"
  THEN <<IF item.credit THEN creditName(item) ELSE "Unknown", " - ">>
         \o chunk(rightsToString(license))
  ELSE <<>>

\* europeanaLoop without the skip of the licenses UNKNOWN and NOT_ALLOWED.
RECURSIVE europeanaLoopAnyRights(_, _, _)
europeanaLoopAnyRights(items, candidates, limit) ==
  IF items = <<>> \/ Len(candidates) >= limit THEN candidates
  ELSE LET item == Head(items)
           license == parseEuropeanaRights(item.rights)
       IN  IF ~item.intact THEN candidates
           ELSE IF ~item.media THEN europeanaLoopAnyRights(Tail(items), candidates, limit)
           ELSE europeanaLoopAnyRights(Tail(items), Append(candidates,
                  [id   |-> <<"europeana", item.id>>,
                   u    |-> imageUrl("europeana", item),
                   k    |-> "culture",
                   ttl  |-> truncate(orElse(item.title,
                              <<"E", "u", "r", "o", "p", "e", "a", "n", "a", " ",
                                "I", "t", "e", "m">>), TitleMax),
                   desc |-> truncate(item.desc, DescMax),
                   src  |-> "Europeana",
                   lic  |-> license,
                   att  |-> europeanaAttribution(item, license),
                   link |-> <<"europeana.eu/item", item.id>>,
                   safe |-> basicSafetyCheck(item.title \o <<" ">> \o item.desc)]), limit)

RECURSIVE europeanaLoop(_, _, _)
europeanaLoop(items, candidates, limit) ==
  IF items = <<>> \/ Len(candidates) >= limit THEN candidates
  ELSE LET item == Head(items)
           license == parseEuropeanaRights(item.rights)
       IN  IF ~item.intact THEN candidates
           ELSE IF ~item.media THEN europeanaLoop(Tail(items), candidates, limit)
           ELSE IF license = "UNKNOWN" \/ license = "NOT_ALLOWED"
           THEN europeanaLoop(Tail(items), candidates, limit)
           ELSE europeanaLoop(Tail(items), Append(candidates,
                  [id   |-> <<"europeana", item.id>>,
                   u    |-> imageUrl("europeana", item),
                   k    |-> "culture",
                   ttl  |-> truncate(orElse(item.title,
                              <<"E", "u", "r", "o", "p", "e", "a", "n", "a", " ",
                                "I", "t", "e", "m">>), TitleMax),
                   desc |-> truncate(item.desc, DescMax),
                   src  |-> "Europeana",
                   lic  |-> license,
                   att  |-> europeanaAttribution(item, license),
                   link |-> <<"europeana.eu/item", item.id>>,
                   safe |-> basicSafetyCheck(item.title \o <<" ">> \o item.desc)]), limit)

fetchEuropeana(limit, response, env) ==
  IF "EUROPEANA_API_KEY" \notin env THEN <<>>
  ELSE IF response.status # "ok" THEN <<>>
  ELSE europeanaLoop(response.items, <<>>, limit)

\* description is item.desc, alt_description is item.title
RECURSIVE unsplashLoop(_, _)
unsplashLoop(photos, candidates) ==
  IF photos = <<>> THEN candidates
  ELSE LET photo == Head(photos)
       IN  IF ~photo.intact THEN candidates
           ELSE IF ~photo.media THEN unsplashLoop(Tail(photos), candidates)
           ELSE unsplashLoop(Tail(photos), Append(candidates,
                  [id   |-> <<"unsplash", photo.id>>,
                   u    |-> imageUrl("unsplash", photo),
                   k    |-> "photo",
                   ttl  |-> truncate(orElse(photo.desc, orElse(photo.title,
                              <<"U", "n", "s", "p", "l", "a", "s", "h", " ",
                                "P", "h", "o", "t", "o">>)), TitleMax),
                   desc |-> <<"Photo by ", IF photo.credit THEN creditName(photo) ELSE "Unknown">>,
                   src  |-> "Unsplash",
                   lic  |-> "CC0",
                   att  |-> <<"Photo by ", IF photo.credit THEN creditName(photo) ELSE "Unknown",
                              " on Unsplash">>,
                   link |-> <<"unsplash.com/photos", photo.id>>,
                   safe |-> basicSafetyCheck(photo.desc \o <<" ">> \o photo.title)]))

fetchUnsplash(limit, response, env) ==
  IF "UNSPLASH_ACCESS_KEY" \notin env THEN <<>>
  ELSE IF response.status # "ok" THEN <<>>
  ELSE unsplashLoop(response.items, <<>>)

\* storyIds are the ids of the top stories; an element that is not intact is
\* an item request that fails or answers null; media is story.url.
RECURSIVE hnLoop(_, _)
hnLoop(storyIds, candidates) ==
  IF storyIds = <<>> THEN candidates
  ELSE LET story == Head(storyIds)
       IN  IF ~story.intact \/ ~story.open \/ ~story.media
           THEN hnLoop(Tail(storyIds), candidates)
           ELSE hnLoop(Tail(storyIds), Append(candidates,
                  [id   |-> <<"hn", story.id>>,
                   u    |-> <<>>,
                   k    |-> "link",
                   ttl  |-> truncate(story.title, HNTitleMax),
                   desc |-> <<"points", "comments">>,
                   src  |-> "Hacker News",
                   lic  |-> "UNKNOWN",
                   att  |-> <<>>,
                   link |-> <<"story.url", story.id>>,
                   safe |-> basicSafetyCheck(story.title)]))

fetchHackerNews(limit, response) ==
  IF response.status # "ok" THEN <<>>
  ELSE hnLoop(slice0(response.items, limit), <<>>)

wikimediaAttribution(page, license) ==
  IF license \in ATTRIBUTION_REQUIRED
  THEN <<IF page.credit THEN creditName(page) ELSE "Unknown", " - ">>
         \o chunk(rightsToString(license))
  ELSE <<>>

\* page.title.replace throws on a page without title, after the two skips.
RECURSIVE wikimediaLoop(_, _, _)
wikimediaLoop(pages, candidates, limit) ==
  IF pages = <<>> \/ Len(candidates) >= limit THEN candidates
  ELSE LET page == Head(pages)
           license == parseWikimediaLicense(page.rights)
       IN  IF ~page.intact THEN candidates
           ELSE IF ~page.media THEN wikimediaLoop(Tail(pages), candidates, limit)
           ELSE IF license \notin RENDER_ALLOWED_LICENSES
           THEN wikimediaLoop(Tail(pages), candidates, limit)
           ELSE IF page.title = <<>> THEN candidates
           ELSE wikimediaLoop(Tail(pages), Append(candidates,
                  [id   |-> <<"wc", page.id>>,
                   u    |-> imageUrl("wc", page),
                   k    |-> "photo",
                   ttl  |-> truncate(page.title, TitleMax),
                   desc |-> truncate(page.desc, DescMax),
                   src  |-> "Wikimedia Commons",
                   lic  |-> license,
                   att  |-> wikimediaAttribution(page, license),
                   link |-> <<"commons.wikimedia.org", page.id>>,
                   safe |-> basicSafetyCheck(page.title \o <<" ">> \o page.desc)]), limit)

fetchWikimediaCommons(limit, response) ==
  IF response.status # "ok" THEN <<>>
  ELSE wikimediaLoop(response.items, <<>>, limit)

(***************************************************************************)
(* The harvest call.                                                       *)
(***************************************************************************)
VARIABLES
  surfaces,    \* argument of harvestCandidates: the set of surface tags
  limit,       \* argument of harvestCandidates (or of the fetcher called directly)
  env,         \* the API keys configured in process.env
  upstream,    \* fetcher name -> the response its provider gives
  failing,     \* a fetcher whose promise rejects (a forced-failing double), or "none"
  pc,          \* "idle", "awaiting" (at Promise.allSettled), "done"; "direct", "returned"
  results,     \* one entry per promise in fetchers: [fetcher, status, value]
  allImages,   \* the merged image candidates, before shuffle and slice
  allLinks,    \* the merged link candidates, before shuffle and slice
  out,         \* the value returned: [img, lnk]
  prev,        \* the value returned by the call before, <<>> at the first call
  calls,       \* number of calls made
  query,       \* req.query of a GET /api/candidates request: surfaces and limit
  reply,       \* the body sent with res.json, <<>> before
  rightsString, \* the argument of the two license classifiers
  classified,  \* what the two classifiers returned for it, <<>> before
  packet,      \* req.body of a POST /api/competing-cards request, <<>> if none
  message      \* what anthropic.messages.create gives for it, <<>> if none

vars == <<surfaces, limit, env, upstream, failing, pc, results,
          allImages, allLinks, out, prev, calls,
          query, reply, rightsString, classified, packet, message>>

\* The request and the classifier argument, which a harvest call leaves alone.
aside == <<query, reply, rightsString, classified, packet, message>>

Tags == {"space", "art", "culture", "photo", "tech", "all"}

Keys == {"SMITHSONIAN_API_KEY", "EUROPEANA_API_KEY", "UNSPLASH_ACCESS_KEY"}

Fetchers ==
  {"fetchNASAAPOD", "fetchNASAEPIC", "fetchMetMuseum", "fetchArtInstituteChicago",
   "fetchSmithsonian", "fetchEuropeana", "fetchWikimediaCommons", "fetchUnsplash",
   "fetchHackerNews"}

\* Math.ceil(n / 2)
ceilHalf(n) == 0 - ((0 - n) \div 2)

\* fetchers that pushes the fetchers of every tag present, tag by tag, so
\* that overlapping tags push a fetcher again.
fetchersPerTag(s, lim) ==
  LET space == <<[fetcher |-> "fetchNASAAPOD", arg |-> lim],
                 [fetcher |-> "fetchNASAEPIC", arg |-> ceilHalf(lim)]>>
      art == <<[fetcher |-> "fetchMetMuseum", arg |-> lim],
               [fetcher |-> "fetchArtInstituteChicago", arg |-> lim]>>
      culture == <<[fetcher |-> "fetchSmithsonian", arg |-> lim],
                   [fetcher |-> "fetchEuropeana", arg |-> lim],
                   [fetcher |-> "fetchWikimediaCommons", arg |-> lim]>>
      photo == <<[fetcher |-> "fetchUnsplash", arg |-> lim]>>
      tech == <<[fetcher |-> "fetchHackerNews", arg |-> lim]>>
      pick(tag, list) == IF tag \in s THEN list ELSE <<>>
  IN  pick("space", space) \o pick("art", art) \o pick("culture", culture)
        \o pick("photo", photo) \o pick("tech", tech)
        \o pick("all", space \o art \o culture \o photo \o tech)

\* fetchers whose tag "all" does not select Hacker News.
fetchersAllButTech(s, lim) ==
  (IF "space" \in s \/ "all" \in s
   THEN <<[fetcher |-> "fetchNASAAPOD", arg |-> lim],
          [fetcher |-> "fetchNASAEPIC", arg |-> ceilHalf(lim)]>> ELSE <<>>)
  \o
  (IF "art" \in s \/ "all" \in s
   THEN <<[fetcher |-> "fetchMetMuseum", arg |-> lim],
          [fetcher |-> "fetchArtInstituteChicago", arg |-> lim]>> ELSE <<>>)
  \o
  (IF "culture" \in s \/ "all" \in s
   THEN <<[fetcher |-> "fetchSmithsonian", arg |-> lim],
          [fetcher |-> "fetchEuropeana", arg |-> lim],
          [fetcher |-> "fetchWikimediaCommons", arg |-> lim]>> ELSE <<>>)
  \o
  (IF "photo" \in s \/ "all" \in s
   THEN <<[fetcher |-> "fetchUnsplash", arg |-> lim]>> ELSE <<>>)
  \o
  (IF "tech" \in s
   THEN <<[fetcher |-> "fetchHackerNews", arg |-> lim]>> ELSE <<>>)

\* The list of fetcher invocations pushed for the surfaces, each with its argument.
fetchers(s, lim) ==
  (IF "space" \in s \/ "all" \in s
   THEN <<[fetcher |-> "fetchNASAAPOD", arg |-> lim],
          [fetcher |-> "fetchNASAEPIC", arg |-> ceilHalf(lim)]>> ELSE <<>>)
  \o
  (IF "art" \in s \/ "all" \in s
   THEN <<[fetcher |-> "fetchMetMuseum", arg |-> lim],
          [fetcher |-> "fetchArtInstituteChicago", arg |-> lim]>> ELSE <<>>)
  \o
  (IF "culture" \in s \/ "all" \in s
   THEN <<[fetcher |-> "fetchSmithsonian", arg |-> lim],
          [fetcher |-> "fetchEuropeana", arg |-> lim],
          [fetcher |-> "fetchWikimediaCommons", arg |-> lim]>> ELSE <<>>)
  \o
  (IF "photo" \in s \/ "all" \in s
   THEN <<[fetcher |-> "fetchUnsplash", arg |-> lim]>> ELSE <<>>)
  \o
  (IF "tech" \in s \/ "all" \in s
   THEN <<[fetcher |-> "fetchHackerNews", arg |-> lim]>> ELSE <<>>)

\* What a fetcher returns for its provider's response.
fetch(fetcher, lim, response, e) ==
  CASE fetcher = "fetchNASAAPOD" -> fetchNASAAPOD(lim, response)
    [] fetcher = "fetchNASAEPIC" -> fetchNASAEPIC(lim, response)
    [] fetcher = "fetchMetMuseum" -> fetchMetMuseum(lim, response)
    [] fetcher = "fetchArtInstituteChicago" -> fetchArtInstituteChicago(lim, response)
    [] fetcher = "fetchSmithsonian" -> fetchSmithsonian(lim, response, e)
    [] fetcher = "fetchEuropeana" -> fetchEuropeana(lim, response, e)
    [] fetcher = "fetchWikimediaCommons" -> fetchWikimediaCommons(lim, response)
    [] fetcher = "fetchUnsplash" -> fetchUnsplash(lim, response, e)
    [] fetcher = "fetchHackerNews" -> fetchHackerNews(lim, response)

\* The fetcher gets as far as its first outbound request: the three keyed
\* fetchers return before it when their key is not configured.
issuesRequest(fetcher, e) ==
  CASE fetcher = "fetchSmithsonian" -> "SMITHSONIAN_API_KEY" \in e
    [] fetcher = "fetchEuropeana" -> "EUROPEANA_API_KEY" \in e
    [] fetcher = "fetchUnsplash" -> "UNSPLASH_ACCESS_KEY" \in e
    [] OTHER -> TRUE

\* malformed without the check of candidate.u.
malformedNoUrl(candidate) ==
  \/ candidate.id = <<>>
  \/ candidate.k = ""
  \/ candidate.ttl = <<>>
  \/ candidate.src = ""
  \/ candidate.lic = ""

\* !candidate.id || !candidate.u || ... || !candidate.lic
malformed(candidate) ==
  \/ candidate.id = <<>>
  \/ candidate.u = <<>>
  \/ candidate.k = ""
  \/ candidate.ttl = <<>>
  \/ candidate.src = ""
  \/ candidate.lic = ""

\* isLinkCandidate with the test of the kind negated.
isLinkCandidateNegated(candidate) ==
  candidate.k # "link" \/ candidate.lic \notin RENDER_ALLOWED_LICENSES

\* candidate.k === 'link' || !RENDER_ALLOWED_LICENSES.includes(candidate.lic)
isLinkCandidate(candidate) ==
  candidate.k = "link" \/ candidate.lic \notin RENDER_ALLOWED_LICENSES

\* The inner loop over one fulfilled result; acc is [img, lnk].
RECURSIVE sortCandidates(_, _)
sortCandidates(value, acc) ==
  IF value = <<>> THEN acc
  ELSE LET candidate == Head(value)
       IN  IF ~candidate.safe THEN sortCandidates(Tail(value), acc)
           ELSE IF malformed(candidate) THEN sortCandidates(Tail(value), acc)
           ELSE IF isLinkCandidate(candidate)
           THEN sortCandidates(Tail(value), [acc EXCEPT !.lnk = Append(@, candidate)])
           ELSE sortCandidates(Tail(value), [acc EXCEPT !.img = Append(@, candidate)])

\* mergeResults that gives up at the first rejected result, as Promise.all would.
RECURSIVE mergeResultsAbort(_, _)
mergeResultsAbort(rs, acc) ==
  IF rs = <<>> THEN acc
  ELSE LET result == Head(rs)
       IN  IF result.status = "fulfilled"
           THEN mergeResultsAbort(Tail(rs), sortCandidates(result.value, acc))
           ELSE [img |-> <<>>, lnk |-> <<>>]

\* The outer loop over the settled results.
RECURSIVE mergeResults(_, _)
mergeResults(rs, acc) ==
  IF rs = <<>> THEN acc
  ELSE LET result == Head(rs)
       IN  IF result.status = "fulfilled"
           THEN mergeResults(Tail(rs), sortCandidates(result.value, acc))
           ELSE mergeResults(Tail(rs), acc)

\* swap that overwrites shuffled[i] and loses its old value.
swapCopy(a, i, j) == [a EXCEPT ![i] = a[j]]

\* Fisher-Yates; rnd[i] is the index drawn at step i (1-based: 1..i).
swap(a, i, j) == [a EXCEPT ![i] = a[j], ![j] = a[i]]

RECURSIVE shuffleFrom(_, _, _)
shuffleFrom(shuffled, i, rnd) ==
  IF i <= 1 THEN shuffled
  ELSE shuffleFrom(swap(shuffled, i, rnd[i]), i - 1, rnd)

shuffle(array, rnd) == shuffleFrom(array, Len(array), rnd)

\* Draws with Math.random() * i: the element at i is never left in its place.
DrawsBelow(n) == {rnd \in [2..n -> 1..n] : \A i \in 2..n : rnd[i] < i}

\* The draws Math.random can give for an array of n elements.
Draws(n) == {rnd \in [2..n -> 1..n] : \A i \in 2..n : rnd[i] <= i}

(***************************************************************************)
(* Actions.                                                                *)
(***************************************************************************)
\* harvestCandidates up to the await: every selected fetcher is invoked.
Call ==
  /\ pc \in {"idle", "done"}
  /\ calls < MaxCalls
  /\ calls' = calls + 1
  /\ prev' = IF pc = "done" THEN out ELSE prev
  /\ results' = [i \in 1..Len(fetchers(surfaces, limit)) |->
                   [fetcher |-> fetchers(surfaces, limit)[i].fetcher,
                    arg |-> fetchers(surfaces, limit)[i].arg,
                    status |-> "pending", value |-> <<>>]]
  /\ allImages' = <<>>
  /\ allLinks' = <<>>
  /\ out' = [img |-> <<>>, lnk |-> <<>>]
  /\ pc' = "awaiting"
  /\ UNCHANGED <<surfaces, limit, env, upstream, failing>>
  /\ UNCHANGED aside

\* The promise of one fetcher settles.
Settle(i) ==
  /\ pc = "awaiting"
  /\ results[i].status = "pending"
  /\ \/ /\ results[i].fetcher # failing
        /\ results' = [results EXCEPT ![i].status = "fulfilled",
                         ![i].value = fetch(results[i].fetcher, results[i].arg,
                                            upstream[results[i].fetcher], env)]
     \/ /\ results[i].fetcher = failing
        /\ results' = [results EXCEPT ![i].status = "rejected"]
  /\ UNCHANGED <<surfaces, limit, env, upstream, failing, pc,
                 allImages, allLinks, out, prev, calls>>
  /\ UNCHANGED aside

\* Resume that does not wait for the last promise: it goes on as soon as one
\* promise has settled.
ResumeAtFirstSettled ==
  /\ pc = "awaiting"
  /\ \E i \in 1..Len(results) : results[i].status # "pending"
  /\ LET merged == mergeResults(results, [img |-> <<>>, lnk |-> <<>>])
     IN  /\ allImages' = merged.img
         /\ allLinks' = merged.lnk
         /\ \E r1 \in Draws(Len(merged.img)), r2 \in Draws(Len(merged.lnk)) :
              out' = [img |-> slice0(shuffle(merged.img, r1), limit * 2),
                      lnk |-> slice0(shuffle(merged.lnk, r2), limit)]
  /\ pc' = "done"
  /\ UNCHANGED <<surfaces, limit, env, upstream, failing, results, prev, calls>>
  /\ UNCHANGED aside

\* Promise.allSettled resolves: merge, shuffle, slice, return.
Resume ==
  /\ pc = "awaiting"
  /\ \A i \in 1..Len(results) : results[i].status # "pending"
  /\ LET merged == mergeResults(results, [img |-> <<>>, lnk |-> <<>>])
     IN  /\ allImages' = merged.img
         /\ allLinks' = merged.lnk
         /\ \E r1 \in Draws(Len(merged.img)), r2 \in Draws(Len(merged.lnk)) :
              out' = [img |-> slice0(shuffle(merged.img, r1), limit * 2),
                      lnk |-> slice0(shuffle(merged.lnk, r2), limit)]
  /\ pc' = "done"
  /\ UNCHANGED <<surfaces, limit, env, upstream, failing, results, prev, calls>>
  /\ UNCHANGED aside

Next ==
  \/ Call
  \/ \E i \in 1..Len(results) : Settle(i)
  \/ Resume

\* A fetcher called directly through module.exports.
Probe ==
  /\ pc = "direct"
  /\ results' = [results EXCEPT ![1].status = "fulfilled",
                   ![1].value = fetch(results[1].fetcher, results[1].arg,
                                      upstream[results[1].fetcher], env)]
  /\ pc' = "returned"
  /\ UNCHANGED <<surfaces, limit, env, upstream, failing,
                 allImages, allLinks, out, prev, calls>>
  /\ UNCHANGED aside

NextAdapter == Probe

(***************************************************************************)
(* Upstream payloads the model draws from.  An item is the plain item      *)
(* (titled "Moon", with an image, of the wanted sort, rights "CC BY-SA     *)
(* 4.0", no credit) or the plain item varied in one field.                 *)
(***************************************************************************)
TMoon == <<"M", "o", "o", "n">>
TNsfw == <<"N", "S", "F", "W", " ", "a", "r", "t">>
TBlank == <<" ">>
TGore == <<"G", "o", "r", "e">>
RBySaShort == <<"C", "C", " ", "B", "Y", "-", "S", "A", " ", "4", ".", "0">>
RByShort == <<"C", "C", " ", "B", "Y", " ", "4", ".", "0">>
RPdMark == <<"P", "u", "b", "l", "i", "c", " ", "D", "o", "m", "a", "i", "n", " ", "M", "a", "r", "k">>
RByUrl == <<"/", "l", "i", "c", "e", "n", "s", "e", "s", "/", "b", "y", "/", "4", ".", "0", "/">>
RInCopyright == <<"/", "v", "o", "c", "a", "b", "/", "I", "n", "-", "C", "o", "p", "y", "r", "i", "g", "h", "t", "/">>

\* The k-th item of a response.
PlainItem(k) ==
  [id |-> k, title |-> TMoon, desc |-> <<>>, media |-> TRUE, open |-> TRUE,
   rights |-> RBySaShort, credit |-> FALSE, intact |-> TRUE]

Variations ==
  {"sameId", "noTitle", "blankTitle", "unsafeTitle", "unsafeDesc", "noMedia",
   "notOpen", "null", "credit", "rightsBy", "rightsByUrl", "rightsPdMark",
   "rightsInCopyright", "noRights"}

\* sameId: the upstream repeats the id of its first item.
vary(item, kind) ==
  CASE kind = "sameId" -> [item EXCEPT !.id = 1]
    [] kind = "noTitle" -> [item EXCEPT !.title = <<>>]
    [] kind = "blankTitle" -> [item EXCEPT !.title = TBlank]
    [] kind = "unsafeTitle" -> [item EXCEPT !.title = TNsfw]
    [] kind = "unsafeDesc" -> [item EXCEPT !.desc = TGore]
    [] kind = "noMedia" -> [item EXCEPT !.media = FALSE]
    [] kind = "notOpen" -> [item EXCEPT !.open = FALSE]
    [] kind = "null" -> [item EXCEPT !.intact = FALSE]
    [] kind = "credit" -> [item EXCEPT !.credit = TRUE]
    [] kind = "rightsBy" -> [item EXCEPT !.rights = RByShort]
    [] kind = "rightsByUrl" -> [item EXCEPT !.rights = RByUrl]
    [] kind = "rightsPdMark" -> [item EXCEPT !.rights = RPdMark]
    [] kind = "rightsInCopyright" -> [item EXCEPT !.rights = RInCopyright]
    [] kind = "noRights" -> [item EXCEPT !.rights = <<>>]
    [] OTHER -> item

Limits == (0 - MaxNegLimit)..MaxLimit

SurfaceSets == {s \in SUBSET Tags : Cardinality(s) <= MaxSurfaces}

FetcherSet(s) == {fetchers(s, 1)[i].fetcher : i \in 1..Len(fetchers(s, 1))}

KeyFor(g) ==
  CASE g = "fetchSmithsonian" -> {"SMITHSONIAN_API_KEY"}
    [] g = "fetchEuropeana" -> {"EUROPEANA_API_KEY"}
    [] g = "fetchUnsplash" -> {"UNSPLASH_ACCESS_KEY"}
    [] OTHER -> {}

NoResponse == [status |-> "ok", items |-> <<>>]

RECURSIVE Total(_, _)
Total(c, G) ==
  IF G = {} THEN 0 ELSE LET g == CHOOSE h \in G : TRUE IN c[g] + Total(c, G \ {g})

\* An absent query parameter, and a request without parameters.
Absent == [given |-> FALSE, text |-> <<>>]

NoQuery == [surfaces |-> Absent, limit |-> Absent]

\* No request is being served and no rights string is being classified.
Apart ==
  /\ query = NoQuery
  /\ reply = <<>>
  /\ rightsString = <<>>
  /\ classified = <<>>
  /\ packet = <<>>
  /\ message = <<>>

Clear ==
  /\ Apart
  /\ results = <<>>
  /\ allImages = <<>>
  /\ allLinks = <<>>
  /\ out = [img |-> <<>>, lnk |-> <<>>]
  /\ prev = <<>>
  /\ calls = 0

\* A call for at most one surface tag other than "all".  The upstream of
\* fetcher g holds c[g] items, at most one item of the call varied; at most
\* one fetcher fails (its promise rejects, or its request fails); at most one
\* key is missing.  Items, the variation, the failure and the missing key
\* together number at most MaxLoad.
InitFocus ==
  \E s \in {t \in SurfaceSets : Cardinality(t) <= 1 /\ "all" \notin t}, lim \in Limits :
    \E c \in {d \in [FetcherSet(s) -> 0..MaxLoad] : Total(d, FetcherSet(s)) <= MaxLoad} :
      \E odd \in {<<"none", 0>>} \cup
                 (IF Total(c, FetcherSet(s)) < MaxLoad
                  THEN {<<g, k>> : g \in FetcherSet(s), k \in 1..MaxLoad} ELSE {}) :
        \E kind \in (IF odd[1] = "none" THEN {"plain"} ELSE Variations),
           bad \in {"none"} \cup FetcherSet(s), miss \in {"none"} \cup Keys :
          \E mode \in (IF bad = "none" THEN {"rejects"} ELSE {"rejects", "notok", "neterr"}) :
            /\ odd[1] # "none" => odd[2] <= c[odd[1]]
            /\ Total(c, FetcherSet(s)) + (IF odd[1] = "none" THEN 0 ELSE 1)
                 + (IF bad = "none" THEN 0 ELSE 1)
                 + (IF miss = "none" THEN 0 ELSE 1) <= MaxLoad
            /\ surfaces = s
            /\ limit = lim
            /\ env = Keys \ {miss}
            /\ failing = IF mode = "rejects" THEN bad ELSE "none"
            /\ upstream = [g \in Fetchers |->
                 IF g \notin FetcherSet(s) THEN NoResponse
                 ELSE [status |-> IF g = bad /\ mode # "rejects" THEN mode ELSE "ok",
                       items |-> [k \in 1..c[g] |->
                                    IF odd = <<g, k>> THEN vary(PlainItem(k), kind)
                                    ELSE PlainItem(k)]]]
            /\ pc = "idle"
            /\ Clear

\* A call for any set of at most MaxSurfaces tags whose upstreams hold nothing.
InitWide ==
  /\ surfaces \in SurfaceSets
  /\ limit \in Limits
  /\ env = Keys
  /\ failing = "none"
  /\ upstream = [g \in Fetchers |-> NoResponse]
  /\ pc = "idle"
  /\ Clear

Init == InitFocus \/ InitWide

Spec == Init /\ [][Next]_vars

\* One fetcher called with a limit on a response of at most MaxProbeItems
\* items, each plain or varied in one field.
InitAdapter ==
  \E g \in Fetchers, lim \in Limits, st \in {"ok", "notok", "neterr"} :
    \E n \in (IF st = "ok" THEN 0..MaxProbeItems ELSE {0}), e \in {Keys, Keys \ KeyFor(g)} :
      \E kinds \in [1..n -> {"plain"} \cup Variations] :
        /\ surfaces = {}
        /\ limit = lim
        /\ env = e
        /\ failing = "none"
        /\ upstream = [h \in Fetchers |->
             IF h = g
             THEN [status |-> st, items |-> [k \in 1..n |-> vary(PlainItem(k), kinds[k])]]
             ELSE NoResponse]
        /\ pc = "direct"
        /\ results = <<[fetcher |-> g, arg |-> lim, status |-> "pending", value |-> <<>>]>>
        /\ allImages = <<>>
        /\ allLinks = <<>>
        /\ out = [img |-> <<>>, lnk |-> <<>>]
        /\ prev = <<>>
        /\ calls = 0
        /\ Apart

SpecAdapter == InitAdapter /\ [][NextAdapter]_vars

(***************************************************************************)
(* The license classifiers called on a rights string.                      *)
(***************************************************************************)
MaxMarkers == 2

RCc0 == <<"C", "C", "0">>
RPd == <<"P", "D">>
RBySaDash == <<"C", "C", "-", "B", "Y", "-", "S", "A">>
RByDash == <<"C", "C", "-", "B", "Y">>
RPdUrl == <<"/", "p", "u", "b", "l", "i", "c", "d", "o", "m", "a", "i", "n", "/", "z", "e", "r", "o", "/">>
RMarkUrl == <<"/", "m", "a", "r", "k", "/">>
RBySaUrl == <<"/", "l", "i", "c", "e", "n", "s", "e", "s", "/", "b", "y", "-", "s", "a", "/", "4", ".", "0", "/">>
ROrphanWork == <<"O", "r", "p", "h", "a", "n", "-", "W", "o", "r", "k">>
RFairUse == <<"F", "a", "i", "r", " ", "u", "s", "e">>

\* Pieces of license names and of rights statement URLs.
Markers ==
  {RBySaShort, RByShort, RPdMark, RByUrl, RInCopyright, RCc0, RPd, RBySaDash,
   RByDash, RPdUrl, RMarkUrl, RBySaUrl, ROrphanWork, RFairUse}

Capitals ==
  {"A", "B", "C", "D", "E", "F", "G", "H", "I", "J", "K", "L", "M",
   "N", "O", "P", "Q", "R", "S", "T", "U", "V", "W", "X", "Y", "Z"}

UpperChar(c) ==
  IF \E u \in Capitals : LowerChar(u) = c
  THEN CHOOSE u \in Capitals : LowerChar(u) = c
  ELSE c

toUpperCase(t) == [i \in 1..Len(t) |-> UpperChar(t[i])]

\* The markers of ms in a row, a blank between two.
RECURSIVE joined(_)
joined(ms) ==
  IF ms = <<>> THEN <<>>
  ELSE IF Len(ms) = 1 THEN ms[1]
  ELSE ms[1] \o <<" ">> \o joined(Tail(ms))

\* The absent string, and up to MaxMarkers markers in a row as written, in
\* lower case and in upper case.
RightsStrings ==
  {<<>>} \cup
  UNION {{joined(ms), toLowerCase(joined(ms)), toUpperCase(joined(ms))} :
           ms \in UNION {[1..n -> Markers] : n \in 1..MaxMarkers}}

\* No harvest call is in progress.
NoHarvest ==
  /\ surfaces = {}
  /\ limit = 1
  /\ env = Keys
  /\ failing = "none"
  /\ upstream = [g \in Fetchers |-> NoResponse]
  /\ results = <<>>
  /\ allImages = <<>>
  /\ allLinks = <<>>
  /\ out = [img |-> <<>>, lnk |-> <<>>]
  /\ prev = <<>>
  /\ calls = 0

InitClassify ==
  /\ rightsString \in RightsStrings
  /\ classified = <<>>
  /\ query = NoQuery
  /\ reply = <<>>
  /\ packet = <<>>
  /\ message = <<>>
  /\ pc = "classify"
  /\ NoHarvest

\* Both classifiers are called on the rights string.
Classify ==
  /\ pc = "classify"
  /\ classified' = [wikimedia |-> parseWikimediaLicense(rightsString),
                    europeana |-> parseEuropeanaRights(rightsString)]
  /\ pc' = "classified"
  /\ UNCHANGED <<surfaces, limit, env, upstream, failing, results,
                 allImages, allLinks, out, prev, calls, query, reply, rightsString,
                 packet, message>>

NextClassify == Classify

SpecClassify == InitClassify /\ [][NextClassify]_vars

(***************************************************************************)
(* GET /api/candidates.                                                    *)
(***************************************************************************)
DefaultLimit == 5
LimitCap == 20

Digits == <<"0", "1", "2", "3", "4", "5", "6", "7", "8", "9">>

isDigit(c) == \E d \in 1..10 : Digits[d] = c

digitValue(c) == (CHOOSE d \in 1..10 : Digits[d] = c) - 1

RECURSIVE leadingDigits(_)
leadingDigits(t) ==
  IF t # <<>> /\ isDigit(Head(t)) THEN <<Head(t)>> \o leadingDigits(Tail(t)) ELSE <<>>

RECURSIVE decimal(_, _)
decimal(ds, acc) ==
  IF ds = <<>> THEN acc ELSE decimal(Tail(ds), acc * 10 + digitValue(Head(ds)))

\* parseInt of a query parameter without radix prefix: blanks, a sign, then
\* the digits up to the first other character; NaN when there is no digit or
\* no parameter.
parseInt(param) ==
  LET t == trimStart(param.text)
      signed == t # <<>> /\ Head(t) \in {"-", "+"}
      ds == leadingDigits(IF signed THEN Tail(t) ELSE t)
  IN  IF ~param.given \/ ds = <<>> THEN [nan |-> TRUE, n |-> 0]
      ELSE [nan |-> FALSE,
            n |-> IF signed /\ Head(t) = "-" THEN 0 - decimal(ds, 0) ELSE decimal(ds, 0)]

\* number || dflt: NaN and 0 are falsy.
orDefault(number, dflt) == IF number.nan \/ number.n = 0 THEN dflt ELSE number.n

\* Math.min
min(a, b) == IF a <= b THEN a ELSE b

\* String.prototype.split(',')
RECURSIVE split(_, _)
split(t, piece) ==
  IF t = <<>> THEN <<piece>>
  ELSE IF Head(t) = "," THEN <<piece>> \o split(Tail(t), <<>>)
  ELSE split(Tail(t), Append(piece, Head(t)))

\* The surface tag a piece of the surfaces parameter spells, "other" if none.
tagOf(w) ==
  CASE w = <<"s", "p", "a", "c", "e">> -> "space"
    [] w = <<"a", "r", "t">> -> "art"
    [] w = <<"c", "u", "l", "t", "u", "r", "e">> -> "culture"
    [] w = <<"p", "h", "o", "t", "o">> -> "photo"
    [] w = <<"t", "e", "c", "h">> -> "tech"
    [] w = <<"a", "l", "l">> -> "all"
    [] OTHER -> "other"

\* req.query.surfaces?.split(',') || ['all'], as the set of its elements
surfacesOf(param) ==
  IF ~param.given THEN {"all"}
  ELSE {tagOf(split(param.text, <<>>)[i]) : i \in DOMAIN split(param.text, <<>>)}

\* The handler up to its await: it reads the query and calls
\* harvestCandidates, which invokes the fetchers.
Handle ==
  /\ pc = "request"
  /\ surfaces' = surfacesOf(query.surfaces)
  /\ limit' = min(orDefault(parseInt(query.limit), DefaultLimit), LimitCap)
  /\ results' = [i \in 1..Len(fetchers(surfaces', limit')) |->
                   [fetcher |-> fetchers(surfaces', limit')[i].fetcher,
                    arg |-> fetchers(surfaces', limit')[i].arg,
                    status |-> "pending", value |-> <<>>]]
  /\ calls' = calls + 1
  /\ pc' = "awaiting"
  /\ UNCHANGED <<env, upstream, failing, allImages, allLinks, out, prev,
                 query, reply, rightsString, classified, packet, message>>

\* The handler after its await: res.json
Respond ==
  /\ pc = "done"
  /\ reply' = [v |-> 1, t |-> "candidates", img |-> out.img, lnk |-> out.lnk]
  /\ pc' = "responded"
  /\ UNCHANGED <<surfaces, limit, env, upstream, failing, results,
                 allImages, allLinks, out, prev, calls, query, rightsString, classified,
                 packet, message>>

Param(text) == [given |-> TRUE, text |-> text]

LimitParams ==
  {Absent, Param(<<>>), Param(<<"a", "b", "c">>), Param(<<"0">>), Param(<<"1">>), Param(<<"5">>),
   Param(<<"2", "0">>), Param(<<"2", "1">>), Param(<<"9", "9", "9">>), Param(<<"-", "3">>), Param(<<"-", "0">>),
   Param(<<"+", "4">>), Param(<<" ", "7">>), Param(<<"7", ".", "9">>), Param(<<"1", "2", "p", "x">>)}

SurfacesParams ==
  {Absent, Param(<<>>), Param(<<"a", "l", "l">>), Param(<<"s", "p", "a", "c", "e">>), Param(<<"s", "p", "a", "c", "e", ",", "a", "r", "t">>),
   Param(<<"a", "r", "t", ",", "a", "r", "t">>), Param(<<"s", "p", "a", "c", "e", ",", "a", "l", "l">>), Param(<<"i", "c", "o", "n", "s">>)}

InitHttp ==
  /\ query \in [surfaces : SurfacesParams, limit : LimitParams]
  /\ reply = <<>>
  /\ rightsString = <<>>
  /\ classified = <<>>
  /\ packet = <<>>
  /\ message = <<>>
  /\ pc = "request"
  /\ NoHarvest

NextHttp ==
  \/ Handle
  \/ \E i \in 1..Len(results) : Settle(i)
  \/ Resume
  \/ Respond

SpecHttp == InitHttp /\ [][NextHttp]_vars

(***************************************************************************)
(* The merge of harvestCandidates on lists that doubles of its fetchers    *)
(* return: candidates of every kind and license, which the fetchers of the *)
(* repository do not all produce.                                          *)
(***************************************************************************)
MaxStubs == 3

StubKinds == {"image", "unlicensed", "link", "unsafe", "untitled"}

\* The n-th candidate of a double: an image candidate with license CC0, or
\* one with license UNKNOWN, or a link candidate, or an unsafe one, or one
\* without title.
Stub(n, kind) ==
  [id   |-> <<"stub", n>>,
   u    |-> <<"stub", "image", n>>,
   k    |-> IF kind = "link" THEN "link" ELSE "art",
   ttl  |-> IF kind = "untitled" THEN <<>> ELSE TMoon,
   desc |-> <<>>,
   src  |-> "Stub",
   lic  |-> IF kind \in {"unlicensed", "link"} THEN "UNKNOWN" ELSE "CC0",
   att  |-> <<>>,
   link |-> <<"stub.example", n>>,
   safe |-> kind # "unsafe"]

\* harvestCandidates(['art'], limit) at its await, its two promises settled:
\* the first fulfilled with up to MaxStubs candidates, the second rejected,
\* fulfilled with nothing or fulfilled with one image candidate.
InitMerge ==
  \E n \in 0..MaxStubs, lim \in Limits, second \in {"rejected", "nothing", "one"} :
    \E kinds \in [1..n -> StubKinds] :
      /\ surfaces = {"art"}
      /\ limit = lim
      /\ env = Keys
      /\ failing = IF second = "rejected" THEN "fetchArtInstituteChicago" ELSE "none"
      /\ upstream = [g \in Fetchers |-> NoResponse]
      /\ pc = "awaiting"
      /\ results =
           <<[fetcher |-> "fetchMetMuseum", arg |-> lim, status |-> "fulfilled",
              value |-> [i \in 1..n |-> Stub(i, kinds[i])]],
             [fetcher |-> "fetchArtInstituteChicago", arg |-> lim,
              status |-> IF second = "rejected" THEN "rejected" ELSE "fulfilled",
              value |-> IF second = "one" THEN <<Stub(n + 1, "image")>> ELSE <<>>]>>
      /\ allImages = <<>>
      /\ allLinks = <<>>
      /\ out = [img |-> <<>>, lnk |-> <<>>]
      /\ prev = <<>>
      /\ calls = 1
      /\ Apart

NextMerge == Resume

SpecMerge == InitMerge /\ [][NextMerge]_vars

(***************************************************************************)
(* POST /api/competing-cards (src/index.js, lines 198-630).                *)
(*                                                                         *)
(* A SignalPacket is the record                                            *)
(*   v, t   version and type                                               *)
(*   d      the desire array is given                                      *)
(*   ctx    the context, with its tod and sl, is given                     *)
(*   m      the mode, a text                                               *)
(*   c      [given, img, fin, tag]: the candidates                         *)
(*   lim    [given, ttl, sub, qt, st, bg]: the limits                      *)
(*   cls    [given, list]: the allowed card classes                        *)
(* A class name is a string, "" the one falsy string.  A card text that    *)
(* sanitizeCardSpec measures or searches is a text of characters; a text   *)
(* of a fallback card, which no code inspects, is a sequence of chunks.    *)
(* An image reference stands for the fields makeImageRef copies from the   *)
(* candidate; null is the empty sequence.                                  *)
(***************************************************************************)
MaxCards == 3

CarryOn ==
  <<"S", "I", "G", "N", "A", "L", "S", " ", "N", "O", "T", "E", "D", ".",
    " ", "C", "A", "R", "R", "Y", " ", "O", "N", ".">>

unsafePatterns ==
  {<<"y", "o", "u", " ", "s", "e", "e", "m">>,
   <<"i", " ", "k", "n", "o", "w", " ", "y", "o", "u">>,
   <<"y", "o", "u", "r", " ", "m", "o", "o", "d">>,
   <<"y", "o", "u", "r", " ", "f", "e", "e", "l", "i", "n", "g", "s">>,
   <<"y", "o", "u", "r", " ", "i", "d", "e", "n", "t", "i", "t", "y">>}

validClasses == {"sig_sum", "flow_next", "calm_reset", "anomaly", "culture_lens"}

abs(x) == IF x < 0 THEN -x ELSE x

\* x || dflt on a class name
orClass(x, dflt) == IF x = "" THEN dflt ELSE x

\* list[i] of an array, undefined (falsy) past its end; i counts from 1
elementAt(list, i) == IF i <= Len(list) THEN list[i] ELSE ""

\* (m || 'sync').charAt(0).toUpperCase() + (m || 'sync').slice(1)
capitalized(m) ==
  LET mode == orElse(m, <<"s", "y", "n", "c">>)
  IN  <<UpperChar(Head(mode))>> \o Tail(mode)

sanitizeCardSpec(spec, pkt) ==
  LET lim == pkt.lim
      ttl == IF spec.ttl # <<>> /\ Len(spec.ttl) > lim.ttl
             THEN slice0(spec.ttl, lim.ttl) ELSE spec.ttl
      sub == IF spec.sub # <<>> /\ Len(spec.sub) > lim.sub
             THEN slice0(spec.sub, lim.sub) ELSE spec.sub
      qt  == IF spec.qt # <<>> /\ Len(spec.qt) > lim.qt
             THEN slice0(spec.qt, lim.qt) ELSE spec.qt
      st  == IF Len(spec.st) > lim.st THEN slice0(spec.st, lim.st) ELSE spec.st
      bg  == IF Len(spec.bg) > lim.bg THEN slice0(spec.bg, lim.bg) ELSE spec.bg
      qtLower == toLowerCase(qt)
      ttlLower == toLowerCase(ttl)
      found == \E pattern \in unsafePatterns :
                 includes(qtLower, pattern) \/ includes(ttlLower, pattern)
  IN  [v   |-> 1,
       t   |-> "card",
       k   |-> IF spec.k \in validClasses THEN spec.k ELSE "sig_sum",
       ttl |-> ttl,
       sub |-> sub,
       img |-> spec.img,
       st  |-> st,
       qt  |-> IF found THEN CarryOn ELSE qt,
       by  |-> orElse(spec.by, <<"SignalEngine">>),
       bg  |-> bg,
       src |-> spec.src]

iconForTag(tag) ==
  LET lower == toLowerCase(tag)
  IN  IF includes(lower, <<"c", "a", "l", "m">>)
         \/ includes(lower, <<"s", "e", "t", "t", "l", "e">>) THEN "leaf"
      ELSE IF includes(lower, <<"a", "c", "t", "i", "v", "e">>)
              \/ includes(lower, <<"s", "y", "s", "t", "e", "m">>) THEN "bolt"
      ELSE IF includes(lower, <<"m", "o", "r", "n", "i", "n", "g">>)
              \/ includes(lower, <<"s", "u", "n">>) THEN "sun"
      ELSE IF includes(lower, <<"e", "v", "e", "n", "i", "n", "g">>)
              \/ includes(lower, <<"n", "i", "g", "h", "t">>) THEN "moon"
      ELSE IF includes(lower, <<"f", "o", "c", "u", "s">>) THEN "target"
      ELSE "chart"

\* packet.c?.img and packet.c?.fin and packet.c?.tag, each || []
imgOf(pkt) == IF pkt.c.given THEN pkt.c.img ELSE <<>>
finOf(pkt) == IF pkt.c.given THEN pkt.c.fin ELSE <<>>
tagsOf(pkt) == IF pkt.c.given THEN pkt.c.tag ELSE <<>>

buildSources(pkt) ==
  (IF imgOf(pkt) # <<>> THEN <<[r |-> "img", id |-> imgOf(pkt)[1].id]>> ELSE <<>>)
    \o [i \in 1..Len(slice0(finOf(pkt), 2)) |-> [r |-> "fin", id |-> finOf(pkt)[i].id]]

makeImageRef(imgCandidate) ==
  IF imgCandidate = <<>> THEN <<>> ELSE <<[id |-> imgCandidate[1].id]>>

\* ${ch >= 0 ? '+' : ''}${ch.toFixed(1)}%
percent(ch) == <<IF ch >= 0 THEN "+" ELSE "", ch, ".0", "%">>

\* Array.prototype.find, hits the positions of the elements that satisfy
\* the test: the first of them, in a list of at most one element; none
\* gives the empty list.
find(list, hits) ==
  IF hits = {} THEN <<>>
  ELSE <<list[CHOOSE i \in hits : \A j \in hits : i <= j]>>

generateCardSpecForClass(cardClass, pkt) ==
  LET img == slice0(imgOf(pkt), 1)
      spiking == {i \in DOMAIN finOf(pkt) : abs(finOf(pkt)[i].ch) > 5}
      anomalyStat == orElse(find(finOf(pkt), spiking), slice0(finOf(pkt), 1))
      ofArt == {i \in DOMAIN imgOf(pkt) : imgOf(pkt)[i].k \in {"art", "space"}}
      artImg == orElse(find(imgOf(pkt), ofArt), img)
      stats == [i \in 1..Len(slice0(finOf(pkt), 2)) |->
                  LET fin == finOf(pkt)[i]
                  IN  [l |-> fin.sym,
                       v |-> IF fin.px > 0 THEN <<"$", fin.px>> ELSE percent(fin.ch),
                       d |-> IF fin.ch >= 0 THEN "up" ELSE "dn",
                       n |-> IF abs(fin.ch) > 5
                             THEN (IF fin.ch > 0 THEN "Surge" ELSE "Drop")
                             ELSE "null"]]
      badges == [i \in 1..Len(slice0(tagsOf(pkt), 3)) |->
                   [i |-> iconForTag(tagsOf(pkt)[i]), t |-> tagsOf(pkt)[i]]]
  IN  CASE cardClass = "flow_next" ->
             [v |-> 1, t |-> "card", k |-> "flow_next",
              ttl |-> <<"NEXT MOVE">>,
              sub |-> <<"Your forward path">>,
              img |-> <<>>,
              st  |-> <<[l |-> "TIME", v |-> <<"~5 min">>, d |-> "flat", n |-> "null"],
                        [l |-> "ACTION", v |-> <<"Return">>, d |-> "up", n |-> "null"]>>,
              qt  |-> <<"MOVE FORWARD. RETURN WHEN READY.">>,
              by  |-> <<"SignalEngine">>,
              bg  |-> <<[i |-> "bolt", t |-> <<"action ready">>]>>,
              src |-> <<>>]
        [] cardClass = "calm_reset" ->
             [v |-> 1, t |-> "card", k |-> "calm_reset",
              ttl |-> <<"MOMENT OF CALM">>,
              sub |-> <<"A pause in the signal stream">>,
              img |-> makeImageRef(img),
              st  |-> <<>>,
              qt  |-> <<"BREATHE. THE WORLD KEEPS TURNING.">>,
              by  |-> <<"SignalEngine">>,
              bg  |-> <<[i |-> "leaf", t |-> <<"settle">>]>>,
              src |-> IF img # <<>> THEN <<[r |-> "img", id |-> img[1].id]>> ELSE <<>>]
        [] cardClass = "anomaly" ->
             [v |-> 1, t |-> "card", k |-> "anomaly",
              ttl |-> <<"OUTLIER DETECTED">>,
              sub |-> <<"Unusual signal activity">>,
              img |-> <<>>,
              st  |-> IF anomalyStat # <<>>
                      THEN <<[l |-> anomalyStat[1].sym,
                              v |-> percent(anomalyStat[1].ch),
                              d |-> IF anomalyStat[1].ch >= 0 THEN "up" ELSE "dn",
                              n |-> IF abs(anomalyStat[1].ch) > 10 THEN "Spike" ELSE "null"]>>
                      ELSE <<>>,
              qt  |-> <<"NOTED. MONITOR AND PROCEED.">>,
              by  |-> <<"SignalEngine">>,
              bg  |-> <<[i |-> "shield", t |-> <<"anomaly">>]>>,
              src |-> IF anomalyStat # <<>>
                      THEN <<[r |-> "fin", id |-> anomalyStat[1].id]>> ELSE <<>>]
        [] cardClass = "culture_lens" ->
             [v |-> 1, t |-> "card", k |-> "culture_lens",
              ttl |-> <<"DEEPER SIGNAL">>,
              sub |-> <<"A moment of perspective">>,
              img |-> makeImageRef(artImg),
              st  |-> <<>>,
              qt  |-> <<"PERSPECTIVE SHIFTS. MEANING EMERGES.">>,
              by  |-> <<"SignalEngine">>,
              bg  |-> <<[i |-> "star", t |-> <<"meaning">>]>>,
              src |-> IF artImg # <<>> THEN <<[r |-> "img", id |-> artImg[1].id]>> ELSE <<>>]
        [] OTHER ->
             [v |-> 1, t |-> "card", k |-> "sig_sum",
              ttl |-> <<"TODAY'S SIGNALS">>,
              sub |-> <<"dateStr", " · ", "timeStr", " · ">> \o capitalized(pkt.m),
              img |-> makeImageRef(img),
              st  |-> stats,
              qt  |-> CarryOn,
              by  |-> <<"SignalEngine">>,
              bg  |-> badges,
              src |-> buildSources(pkt)]

generateFallbackEnvelope(pkt) ==
  LET allowedClasses == IF pkt.cls.given THEN pkt.cls.list
                        ELSE <<"sig_sum", "calm_reset">>
      class1 == orClass(elementAt(allowedClasses, 1), "sig_sum")
      class2 == orClass(elementAt(allowedClasses, 2),
                        IF class1 = "sig_sum" THEN "calm_reset" ELSE "sig_sum")
  IN  [v |-> 1,
       t |-> "cards",
       c |-> <<generateCardSpecForClass(class1, pkt),
               generateCardSpecForClass(class2, pkt)>>]

\* The text of a model response is [shape, v, t, c]: shape "prose" has no
\* {...} in it, shape "badjson" has one that JSON.parse rejects, and shape
\* "json" has one that parses to an object with these v, t and c; c is
\* [isArray, list], and an element of the list with intact FALSE is null,
\* on which sanitizeCardSpec throws.
parseCompetingCardsResponse(text, pkt) ==
  LET sanitizedCards == [i \in DOMAIN text.c.list |->
                           sanitizeCardSpec(text.c.list[i], pkt)]
      classes == {sanitizedCards[i].k : i \in DOMAIN sanitizedCards}
  IN  IF /\ text.shape = "json"
         /\ text.v = 1 /\ text.t = "cards" /\ text.c.isArray
         /\ \A i \in DOMAIN text.c.list : text.c.list[i].intact
         /\ Cardinality(classes) = Len(sanitizedCards)
      THEN [v |-> 1, t |-> "cards", c |-> sanitizedCards]
      ELSE generateFallbackEnvelope(pkt)

\* buildCompetingCardsPrompt reads packet.ctx.tod and packet.ctx.sl, and
\* throws a TypeError on a packet without them.
promptThrows(pkt) == ~pkt.ctx

\* The handler up to its await: the two validations, then the prompt.
Post ==
  /\ pc = "posted"
  /\ IF packet.v = 0 \/ packet.t # "sig" \/ ~packet.d \/ ~packet.c.given
        \/ ~packet.lim.given
     THEN /\ reply' = [status |-> 400,
                       body |-> [error |-> "Invalid SignalPacket structure"]]
          /\ pc' = "replied"
     ELSE IF ~packet.cls.given \/ Len(packet.cls.list) < 2
     THEN /\ reply' = [status |-> 400, body |-> [error |-> "Invalid SignalPacket"]]
          /\ pc' = "replied"
     ELSE IF promptThrows(packet)
     THEN /\ reply' = [status |-> 200, body |-> generateFallbackEnvelope(packet)]
          /\ pc' = "replied"
     ELSE /\ reply' = reply
          /\ pc' = "calling"
  /\ UNCHANGED <<surfaces, limit, env, upstream, failing, results, allImages,
                 allLinks, out, prev, calls, query, rightsString, classified,
                 packet, message>>

\* The handler from its await on: the call rejects, or its message has no
\* content (message.content[0].text throws), or it has a text.
Answer ==
  /\ pc = "calling"
  /\ reply' = [status |-> 200,
               body |-> IF message.arrives = "text"
                        THEN parseCompetingCardsResponse(message.text, packet)
                        ELSE generateFallbackEnvelope(packet)]
  /\ pc' = "replied"
  /\ UNCHANGED <<surfaces, limit, env, upstream, failing, results, allImages,
                 allLinks, out, prev, calls, query, rightsString, classified,
                 packet, message>>

(***************************************************************************)
(* The packets and the model responses the model draws from.               *)
(***************************************************************************)
TCalm ==
  <<"c", "a", "l", "m">>
TFocus ==
  <<"F", "o", "c", "u", "s">>
TMarkets ==
  <<"m", "a", "r", "k", "e", "t", "s">>

Candidates ==
  {[given |-> TRUE, img |-> <<>>, fin |-> <<>>, tag |-> <<>>],
   [given |-> TRUE,
    img |-> <<[id |-> "img1", k |-> "nature"], [id |-> "img2", k |-> "art"]>>,
    fin |-> <<[id |-> "fin1", sym |-> "AAA", ch |-> 2, px |-> 0],
              [id |-> "fin2", sym |-> "BBB", ch |-> -7, px |-> 120],
              [id |-> "fin3", sym |-> "CCC", ch |-> 12, px |-> 0]>>,
    tag |-> <<TCalm, TFocus, TMarkets, TCalm>>]}

NoCandidates == [given |-> FALSE, img |-> <<>>, fin |-> <<>>, tag |-> <<>>]

LimWide == [given |-> TRUE, ttl |-> 24, sub |-> 40, qt |-> 60, st |-> 3, bg |-> 3]
LimTight == [given |-> TRUE, ttl |-> 6, sub |-> 8, qt |-> 8, st |-> 1, bg |-> 1]
NoLim == [given |-> FALSE, ttl |-> 0, sub |-> 0, qt |-> 0, st |-> 0, bg |-> 0]

ClassLists ==
  {[given |-> FALSE, list |-> <<>>],
   [given |-> TRUE, list |-> <<"sig_sum">>],
   [given |-> TRUE, list |-> <<"sig_sum", "calm_reset">>],
   [given |-> TRUE, list |-> <<"flow_next", "culture_lens", "anomaly">>],
   [given |-> TRUE, list |-> <<"anomaly", "anomaly">>],
   [given |-> TRUE, list |-> <<"poem", "haiku">>],
   [given |-> TRUE, list |-> <<"", "">>]}

\* The packets that pass the first validation, and a packet broken in one
\* of the fields the first validation reads.
Packets ==
  [v : {1}, t : {"sig"}, d : {TRUE}, ctx : BOOLEAN, m : {<<>>, toLowerCase(TFocus)},
   c : Candidates, lim : {LimWide, LimTight}, cls : ClassLists]
  \cup
  {[v |-> b.v, t |-> b.t, d |-> b.d, ctx |-> TRUE, m |-> <<>>, c |-> b.c,
    lim |-> b.lim, cls |-> [given |-> TRUE, list |-> <<"sig_sum", "calm_reset">>]] :
     b \in {[v |-> 0, t |-> "sig", d |-> TRUE, c |-> NoCandidates, lim |-> NoLim],
            [v |-> 0, t |-> "sig", d |-> TRUE,
             c |-> [given |-> TRUE, img |-> <<>>, fin |-> <<>>, tag |-> <<>>],
             lim |-> LimWide],
            [v |-> 1, t |-> "card", d |-> TRUE,
             c |-> [given |-> TRUE, img |-> <<>>, fin |-> <<>>, tag |-> <<>>],
             lim |-> LimWide],
            [v |-> 1, t |-> "sig", d |-> FALSE,
             c |-> [given |-> TRUE, img |-> <<>>, fin |-> <<>>, tag |-> <<>>],
             lim |-> LimWide],
            [v |-> 1, t |-> "sig", d |-> TRUE, c |-> NoCandidates, lim |-> LimWide],
            [v |-> 1, t |-> "sig", d |-> TRUE,
             c |-> [given |-> TRUE, img |-> <<>>, fin |-> <<>>, tag |-> <<>>],
             lim |-> NoLim]}}

TSignals ==
  <<"S", "i", "g", "n", "a", "l", "s">>
TYourMoodToday ==
  <<"Y", "o", "u", "r", " ", "m", "o", "o", "d", " ", "t", "o", "d", "a",
    "y">>
TAQuietHour ==
  <<"A", " ", "q", "u", "i", "e", "t", " ", "h", "o", "u", "r">>
TCarryOn ==
  <<"C", "a", "r", "r", "y", " ", "o", "n">>
TYouSeemTired ==
  <<"Y", "o", "u", " ", "s", "e", "e", "m", " ", "t", "i", "r", "e", "d",
    " ", "t", "o", "d", "a", "y">>
TBreatheYouSeem ==
  <<"B", "r", "e", "a", "t", "h", "e", ".", " ", "Y", "o", "u", " ", "s",
    "e", "e", "m", " ", "t", "i", "r", "e", "d">>
TIKnowYou ==
  <<"I", " ", "K", "N", "O", "W", " ", "Y", "O", "U", " ", "W", "E", "L",
    "L">>

Stat(l) == [l |-> l, v |-> <<"1">>, d |-> "flat", n |-> "null"]
Badge(i) == [i |-> i, t |-> <<"tag">>]

\* The card specs of a model response: a card within every limit, cards
\* with a personalization pattern in the quote (at its start, and past the
\* tight quote limit) or in the title, a card of no valid class with long
\* lists and no texts, and null.
CardSpecs ==
  {[intact |-> TRUE, k |-> "sig_sum", ttl |-> TSignals, sub |-> TAQuietHour,
    img |-> <<>>, st |-> <<Stat("AAA")>>, qt |-> TCarryOn, by |-> <<"Model">>,
    bg |-> <<Badge("sun")>>, src |-> <<>>],
   [intact |-> TRUE, k |-> "calm_reset", ttl |-> TSignals, sub |-> TAQuietHour,
    img |-> <<>>, st |-> <<>>, qt |-> TYouSeemTired, by |-> <<>>,
    bg |-> <<Badge("leaf")>>, src |-> <<>>],
   [intact |-> TRUE, k |-> "flow_next", ttl |-> TSignals, sub |-> <<>>,
    img |-> <<>>, st |-> <<>>, qt |-> TBreatheYouSeem, by |-> <<>>,
    bg |-> <<>>, src |-> <<>>],
   [intact |-> TRUE, k |-> "anomaly", ttl |-> TYourMoodToday, sub |-> TAQuietHour,
    img |-> <<>>, st |-> <<Stat("AAA"), Stat("BBB")>>, qt |-> TIKnowYou,
    by |-> <<"Model">>, bg |-> <<>>, src |-> <<>>],
   [intact |-> TRUE, k |-> "poem", ttl |-> <<>>, sub |-> <<>>,
    img |-> <<>>, st |-> <<Stat("AAA"), Stat("BBB"), Stat("CCC"), Stat("DDD")>>,
    qt |-> <<>>, by |-> <<>>,
    bg |-> <<Badge("sun"), Badge("moon"), Badge("leaf"), Badge("bolt")>>,
    src |-> <<>>],
   [intact |-> FALSE, k |-> "", ttl |-> <<>>, sub |-> <<>>, img |-> <<>>,
    st |-> <<>>, qt |-> <<>>, by |-> <<>>, bg |-> <<>>, src |-> <<>>]}

CardLists == UNION {[1..n -> CardSpecs] : n \in 0..MaxCards}

NoCards == [isArray |-> FALSE, list |-> <<>>]

Texts ==
  {[shape |-> s, v |-> 0, t |-> "", c |-> NoCards] : s \in {"prose", "badjson"}}
  \cup [shape : {"json"}, v : {1}, t : {"cards"},
        c : {NoCards} \cup [isArray : {TRUE}, list : CardLists]]
  \cup [shape : {"json"}, v : {1, 2}, t : {"cards", "card"},
        c : {[isArray |-> TRUE, list |-> <<>>]}]

NoText == [shape |-> "prose", v |-> 0, t |-> "", c |-> NoCards]

Messages ==
  {[arrives |-> a, text |-> NoText] : a \in {"rejected", "nocontent"}}
  \cup [arrives : {"text"}, text : Texts]

InitCards ==
  /\ packet \in Packets
  /\ message \in Messages
  /\ reply = <<>>
  /\ query = NoQuery
  /\ rightsString = <<>>
  /\ classified = <<>>
  /\ pc = "posted"
  /\ NoHarvest

NextCards == Post \/ Answer

SpecCards == InitCards /\ [][NextCards]_vars

(***************************************************************************)
(* Properties.                                                             *)
(***************************************************************************)
Range(q) == {q[i] : i \in DOMAIN q}

Output == Range(out.img) \cup Range(out.lnk)

\* The candidates the fulfilled fetchers returned.
Returned ==
  UNION {Range(results[i].value) : i \in {j \in DOMAIN results : results[j].status = "fulfilled"}}

\* The positions <<i, k>> of the candidates the fulfilled fetchers returned.
ReturnedPositions ==
  UNION {{<<i, k>> : k \in DOMAIN results[i].value} :
           i \in {j \in DOMAIN results : results[j].status = "fulfilled"}}

RequiredFieldsPresent(c) ==
  /\ c.id # <<>> /\ c.u # <<>> /\ c.k # "" /\ c.ttl # <<>> /\ c.src # "" /\ c.lic # ""

ImageEligible(c) == c.k # "link" /\ c.lic \in {"PD", "CC0", "CCBY", "CCBYSA", "NASA_PD"}

Ids(q) == {q[i].id : i \in DOMAIN q}

Occurrences(q, id) == Cardinality({i \in DOMAIN q : q[i].id = id})

\* C1: every candidate of the image bucket has a kind other than link and a
\* render-allowed license, and every candidate of the link bucket has kind
\* link or a license that is not render-allowed; so does the merge before the
\* truncation.
C1_BucketsByKindAndLicense ==
  /\ \A c \in Range(out.img) \cup Range(allImages) : ImageEligible(c)
  /\ \A c \in Range(out.lnk) \cup Range(allLinks) : ~ImageEligible(c)

C1_Witness ==
  /\ pc = "done"
  /\ \E c \in Range(out.img) : c.lic = "CC0"
  /\ \E c \in Range(out.img) : c.lic = "CCBYSA"

\* C2: every candidate of either bucket has safe = TRUE and non-empty id, u,
\* k, ttl, src and lic; a returned candidate that is unsafe or lacks a
\* required field is in no bucket.
C2_OutputSafeAndWellFormed ==
  /\ \A c \in Output : c.safe /\ RequiredFieldsPresent(c)
  /\ \A c \in Returned : (~c.safe \/ ~RequiredFieldsPresent(c)) => c \notin Output

C2_Witness ==
  /\ pc = "done"
  /\ out.img # <<>>
  /\ \E c \in Returned : c.safe /\ ~RequiredFieldsPresent(c)

\* C3: with a positive limit the image bucket has at most 2 * limit
\* candidates and the link bucket at most limit.
C3_BucketSizes ==
  (pc = "done" /\ limit >= 1) =>
    (Len(out.img) <= 2 * limit /\ Len(out.lnk) <= limit)

C3_Witness ==
  /\ pc = "done"
  /\ limit >= 1
  /\ Len(allImages) > 2 * limit
  /\ Len(out.img) = 2 * limit

\* C4: when the promise of a fetcher rejects, the call still returns, the
\* merge holds every safe, well-formed candidate of the fulfilled fetchers,
\* and nothing that no fulfilled fetcher returned.
C4_FailureIsolation ==
  (pc = "done" /\ \E i \in DOMAIN results : results[i].status = "rejected") =>
    /\ \A c \in Returned :
         (c.safe /\ RequiredFieldsPresent(c)) => c \in Range(allImages) \cup Range(allLinks)
    /\ Range(allImages) \cup Range(allLinks) \subseteq Returned
    /\ \A i \in DOMAIN results : results[i].status = "rejected" => results[i].value = <<>>

C4_Witness ==
  /\ pc = "done"
  /\ \E i \in DOMAIN results : results[i].status = "rejected"
  /\ out.img # <<>>

\* C5: a call for tech alone whose Hacker News fetcher returns n <= limit
\* link candidates that pass the safety filter returns n links and no image.
C5_TechLinksReturned ==
  (pc = "done" /\ surfaces = {"tech"} /\ limit >= 1 /\ failing = "none") =>
    LET n == Cardinality({k \in DOMAIN results[1].value :
                            /\ results[1].value[k].k = "link"
                            /\ results[1].value[k].safe
                            /\ results[1].value[k].ttl # <<>>})
    IN  n <= limit => (Len(out.lnk) = n /\ Len(out.img) = 0)

\* C6: no candidate of either bucket has a title that contains a blocklisted
\* term, whatever fetcher it comes from.
C6_UnsafeTitleExcluded ==
  \A c \in Output : basicSafetyCheck(c.ttl)

\* C7: every candidate a fetcher returns, and every candidate of either
\* bucket, whose license is CCBY, CCBYSA or NASA_PD has a non-empty attribution.
C7_AttributionPresent ==
  \A i \in DOMAIN results : \A c \in Range(results[i].value) \cup Output :
    c.lic \in {"CCBY", "CCBYSA", "NASA_PD"} => c.att # <<>>

C7_Witness ==
  /\ pc = "returned"
  /\ \E c \in Range(results[1].value) : c.lic = "CCBYSA" /\ c.src = "Europeana"
  /\ \E c \in Range(results[1].value) : c.lic = "CCBY" /\ c.src = "Europeana"

\* C8: a call with a limit that is not positive, or with no surface, does not
\* return a result.
C8_ContractErrorsSurfaced ==
  pc = "done" => (limit >= 1 /\ surfaces # {})

\* C9: no two candidates of the output have the same id.
C9_OutputIdsUnique ==
  pc = "done" =>
    \A id \in Ids(out.img \o out.lnk) : Occurrences(out.img \o out.lnk, id) = 1

\* C9 as amended: the output holds an id no more often than the fetchers
\* returned it; ids the fetchers returned once occur at most once.
C9_NoIdAddedByHarvest ==
  pc = "done" =>
    \A id \in Ids(out.img \o out.lnk) :
      Occurrences(out.img \o out.lnk, id)
        <= Cardinality({p \in ReturnedPositions : results[p[1]].value[p[2]].id = id})

C9_Witness ==
  /\ pc = "done"
  /\ \E id \in Ids(out.img) : Occurrences(out.img, id) = 2

\* C10: a second call with the same arguments against the same upstreams
\* returns buckets of the same sizes holding the same ids as the first.
C10_SameIdsInBothCalls ==
  (pc = "done" /\ calls = 2 /\ limit >= 1) =>
    /\ Ids(out.img) = Ids(prev.img) /\ Len(out.img) = Len(prev.img)
    /\ Ids(out.lnk) = Ids(prev.lnk) /\ Len(out.lnk) = Len(prev.lnk)

\* C10 as amended: both calls return buckets of the same sizes; a bucket
\* holds the same ids in both calls when the candidates merged into it do not
\* exceed its cap (2 * limit images, limit links); otherwise the ids of each
\* call are among those of the merged candidates.
C10_SameSizesAndIdsUnderCap ==
  (pc = "done" /\ calls >= 2) =>
    /\ Len(out.img) = Len(prev.img) /\ Len(out.lnk) = Len(prev.lnk)
    /\ Len(allImages) <= 2 * limit => Ids(out.img) = Ids(prev.img)
    /\ Len(allLinks) <= limit => Ids(out.lnk) = Ids(prev.lnk)
    /\ Ids(out.img) \cup Ids(prev.img) \subseteq Ids(allImages)
    /\ Ids(out.lnk) \cup Ids(prev.lnk) \subseteq Ids(allLinks)

C10_Witness ==
  /\ pc = "done"
  /\ calls = 2
  /\ limit >= 1
  /\ Len(allImages) = 2 * limit
  /\ out.img # prev.img

\* The fetchers invoked by the call in progress.
Invoked == {results[i].fetcher : i \in DOMAIN results}

\* C11: in one call no fetcher is invoked more than once, whatever tags the
\* surfaces hold, overlapping tags such as space with all included.
C11_EachFetcherInvokedOnce ==
  pc \in {"awaiting", "done"} =>
    \A g \in Fetchers : Cardinality({i \in DOMAIN results : results[i].fetcher = g}) <= 1

C11_Witness ==
  /\ pc = "awaiting"
  /\ surfaces = {"space", "all"}
  /\ Len(results) = 9

\* C12: a call for the tag all alone invokes every fetcher, and a call for
\* one other tag alone invokes some but not all of the fetchers that the tag
\* all selects.
C12_AllIsStrictSuperset ==
  (pc = "awaiting" /\ Cardinality(surfaces) = 1) =>
    IF surfaces = {"all"} THEN Invoked = Fetchers
    ELSE /\ Invoked # {}
         /\ Invoked \subseteq Fetchers
         /\ Invoked # Fetchers
         /\ surfaces \subseteq Tags

C12_Witness ==
  /\ pc = "awaiting"
  /\ surfaces = {"all"}
  /\ Invoked = Fetchers
  /\ \A i \in DOMAIN results : results[i].status = "fulfilled"

\* The fetcher called directly, its argument, its response and its return value.
Probed == results[1].fetcher

ProbedValue == results[1].value

\* The elements of the response that the loop of fetcher g goes over.
Scanned(g, lim, items) ==
  CASE g \in {"fetchNASAAPOD", "fetchNASAEPIC", "fetchHackerNews"} -> slice0(items, lim)
    [] g = "fetchMetMuseum" -> slice0(items, lim * 3)
    [] OTHER -> items

\* The loop of fetcher g run over items.
Assembled(g, lim, items) ==
  CASE g = "fetchNASAAPOD" -> apodLoop(items, <<>>)
    [] g = "fetchNASAEPIC" -> epicLoop(items, <<>>)
    [] g = "fetchMetMuseum" -> metLoop(items, <<>>, lim)
    [] g = "fetchArtInstituteChicago" -> articLoop(items, <<>>)
    [] g = "fetchSmithsonian" -> smithsonianLoop(items, <<>>)
    [] g = "fetchEuropeana" -> europeanaLoop(items, <<>>, lim)
    [] g = "fetchWikimediaCommons" -> wikimediaLoop(items, <<>>, lim)
    [] g = "fetchUnsplash" -> unsplashLoop(items, <<>>)
    [] g = "fetchHackerNews" -> hnLoop(items, <<>>)

\* The element makes the loop of fetcher g fail: it is null, or it is a
\* Wikimedia page without title that passed the two skips.
Breaks(g, x) ==
  \/ ~x.intact
  \/ /\ g = "fetchWikimediaCommons"
     /\ x.media
     /\ parseWikimediaLicense(x.rights) \in {"PD", "CC0", "CCBY", "CCBYSA", "NASA_PD"}
     /\ x.title = <<>>

\* The elements before the first that makes the loop fail.
RECURSIVE BeforeFailure(_, _)
BeforeFailure(g, items) ==
  IF items = <<>> \/ Breaks(g, Head(items)) THEN <<>>
  ELSE <<Head(items)>> \o BeforeFailure(g, Tail(items))

Unbroken(x) == x.intact

KeyConfigured(g) == KeyFor(g) \subseteq env

\* C13: a fetcher called directly returns normally, and what it returns is
\* what it had assembled before the first failure: nothing when the response
\* is a transport error or a non-success status, the candidates of the
\* elements before the first broken one when the payload is malformed.
C13_ReturnsAssembledBeforeFailure ==
  pc = "returned" =>
    /\ results[1].status = "fulfilled"
    /\ upstream[Probed].status # "ok" => ProbedValue = <<>>
    /\ (upstream[Probed].status = "ok" /\ KeyConfigured(Probed)) =>
         ProbedValue = Assembled(Probed, results[1].arg,
                         BeforeFailure(Probed,
                           Scanned(Probed, results[1].arg, upstream[Probed].items)))

\* C13 as amended: a fetcher called directly returns normally; it returns
\* nothing when its first request fails or answers a non-success status; the
\* Met Museum and Hacker News fetchers pass over an element whose own request
\* fails or answers null and go on with the next; every other fetcher returns
\* the candidates of the elements before the first broken one.
C13_ReturnsAssembledOrPassesOver ==
  pc = "returned" =>
    /\ results[1].status = "fulfilled"
    /\ upstream[Probed].status # "ok" => ProbedValue = <<>>
    /\ (upstream[Probed].status = "ok" /\ KeyConfigured(Probed)) =>
         ProbedValue = Assembled(Probed, results[1].arg,
                         IF Probed \in {"fetchMetMuseum", "fetchHackerNews"}
                         THEN SelectSeq(Scanned(Probed, results[1].arg, upstream[Probed].items),
                                        Unbroken)
                         ELSE BeforeFailure(Probed,
                                Scanned(Probed, results[1].arg, upstream[Probed].items)))

C13_Witness ==
  /\ pc = "returned"
  /\ Probed = "fetchNASAAPOD"
  /\ Len(upstream[Probed].items) = 2
  /\ ~upstream[Probed].items[2].intact
  /\ Len(ProbedValue) = 1

\* C14: the Smithsonian, Europeana and Unsplash fetchers return the empty
\* list, without issuing a request, when their API key is not configured.
C14_NoKeyNoRequest ==
  (pc = "returned" /\ KeyFor(Probed) # {} /\ ~KeyConfigured(Probed)) =>
    /\ ProbedValue = <<>>
    /\ ~issuesRequest(Probed, env)

C14_Witness ==
  /\ pc = "returned"
  /\ Probed = "fetchSmithsonian"
  /\ ~KeyConfigured(Probed)
  /\ upstream[Probed].status = "ok"
  /\ \E k \in DOMAIN upstream[Probed].items :
       upstream[Probed].items[k] = PlainItem(k)
  /\ ProbedValue = <<>>

\* C17: while a promise of the call is pending nothing is merged and nothing
\* is returned: the merged lists and the result are empty until the call has
\* resumed, and the call has resumed only when every promise has settled.
C17_MergeAfterAllSettled ==
  /\ pc = "awaiting" =>
       allImages = <<>> /\ allLinks = <<>> /\ out = [img |-> <<>>, lnk |-> <<>>]
  /\ pc = "done" => \A i \in DOMAIN results : results[i].status \in {"fulfilled", "rejected"}

C17_Witness ==
  /\ pc = "awaiting"
  /\ \E i \in DOMAIN results : results[i].status = "fulfilled" /\ results[i].value # <<>>
  /\ \E i \in DOMAIN results : results[i].status = "pending"
  /\ allImages = <<>>

\* The license the fetcher g gives to a rights string.
ClassifiedBy(g, rights) ==
  IF g = "fetchEuropeana" THEN parseEuropeanaRights(rights) ELSE parseWikimediaLicense(rights)

\* C18: every candidate the Europeana and Wikimedia Commons fetchers return
\* has a render-allowed license, and they return no more candidates than the
\* response has elements whose rights string classifies to such a license.
C18_RightsFetchersEmitRenderAllowed ==
  (pc = "returned" /\ Probed \in {"fetchEuropeana", "fetchWikimediaCommons"}) =>
    /\ \A c \in Range(ProbedValue) : c.lic \in {"PD", "CC0", "CCBY", "CCBYSA", "NASA_PD"}
    /\ Len(ProbedValue) <=
         Cardinality({k \in DOMAIN upstream[Probed].items :
                        ClassifiedBy(Probed, upstream[Probed].items[k].rights)
                          \notin {"UNKNOWN", "NOT_ALLOWED"}})

C18_Witness ==
  /\ pc = "returned"
  /\ Probed = "fetchEuropeana"
  /\ Len(upstream[Probed].items) = 2
  /\ upstream[Probed].items[1].rights = RInCopyright
  /\ Len(ProbedValue) = 1
  /\ ProbedValue[1].id = <<"europeana", 2>>

\* C19: with a positive limit, no fetcher of the call returns more candidates
\* than the limit.
C19_AtMostLimitPerFetcher ==
  limit >= 1 =>
    \A i \in DOMAIN results :
      results[i].status = "fulfilled" => Len(results[i].value) <= limit

\* The rule table: the first marker class present decides.
RuleTable(publicDomain, shareAlike, attribution, notAllowed) ==
  IF publicDomain THEN "CC0"
  ELSE IF shareAlike THEN "CCBYSA"
  ELSE IF attribution THEN "CCBY"
  ELSE IF notAllowed THEN "NOT_ALLOWED"
  ELSE "UNKNOWN"

\* The marker classes present in a lower-case license name.
NamePublicDomain(lower) ==
  includes(lower, <<"c", "c", "0">>) \/ includes(lower, <<"p", "u", "b", "l", "i", "c", " ", "d", "o", "m", "a", "i", "n">>) \/ lower = <<"p", "d">>

NameShareAlike(lower) == includes(lower, <<"c", "c", "-", "b", "y", "-", "s", "a">>) \/ includes(lower, <<"c", "c", " ", "b", "y", "-", "s", "a">>)

NameAttribution(lower) == includes(lower, <<"c", "c", "-", "b", "y">>) \/ includes(lower, <<"c", "c", " ", "b", "y">>)

\* The marker classes present in a lower-case rights statement URL.
UrlPublicDomain(lower) ==
  includes(lower, <<"p", "u", "b", "l", "i", "c", "d", "o", "m", "a", "i", "n">>) \/ includes(lower, <<"c", "c", "0">>) \/ includes(lower, <<"/", "m", "a", "r", "k", "/">>)

UrlShareAlike(lower) == includes(lower, <<"b", "y", "-", "s", "a">>)

UrlAttribution(lower) == includes(lower, <<"/", "b", "y", "/">>)

UrlNotAllowed(lower) == includes(lower, <<"i", "n", "-", "c", "o", "p", "y", "r", "i", "g", "h", "t">>) \/ includes(lower, <<"o", "r", "p", "h", "a", "n", "-", "w", "o", "r", "k">>)

\* C15: both classifiers give, for every rights string in any case, the
\* license of one rule table over the markers present: a public-domain or CC0
\* marker gives CC0, else a share-alike marker CCBYSA, else an attribution
\* marker CCBY, else a not-allowed marker NOT_ALLOWED, else UNKNOWN; so
\* "Public Domain Mark" gives CC0 and "CC BY-SA 4.0" gives CCBYSA.
C15_OneRuleTableForBoth ==
  pc = "classified" =>
    LET lower == toLowerCase(rightsString)
        license == RuleTable(NamePublicDomain(lower) \/ UrlPublicDomain(lower),
                             NameShareAlike(lower) \/ UrlShareAlike(lower),
                             NameAttribution(lower) \/ UrlAttribution(lower),
                             UrlNotAllowed(lower))
    IN  classified.wikimedia = license /\ classified.europeana = license

\* C15 as amended: each classifier is case-insensitive and applies the order
\* public domain, share-alike, attribution to its own markers; only the
\* classifier of rights statement URLs has not-allowed markers, the classifier
\* of license names gives UNKNOWN where no marker of its own is present.
\* "Public Domain Mark" is CC0 as a license name and UNKNOWN as a URL;
\* "CC BY-SA 4.0" is CCBYSA in both, a license that requires attribution.
C15_RuleTablePerClassifier ==
  pc = "classified" =>
    LET lower == toLowerCase(rightsString)
    IN  /\ classified.wikimedia = parseWikimediaLicense(lower)
        /\ classified.europeana = parseEuropeanaRights(lower)
        /\ classified.wikimedia =
             RuleTable(NamePublicDomain(lower), NameShareAlike(lower),
                       NameAttribution(lower), FALSE)
        /\ classified.europeana =
             RuleTable(UrlPublicDomain(lower), UrlShareAlike(lower),
                       UrlAttribution(lower), UrlNotAllowed(lower))
        /\ rightsString = RPdMark =>
             classified.wikimedia = "CC0" /\ classified.europeana = "UNKNOWN"
        /\ rightsString = RBySaShort =>
             /\ classified.wikimedia = "CCBYSA" /\ classified.europeana = "CCBYSA"
             /\ "CCBYSA" \in ATTRIBUTION_REQUIRED

C15_Witness ==
  /\ pc = "classified"
  /\ rightsString = toUpperCase(RBySaShort \o <<" ">> \o RCc0)
  /\ classified.wikimedia = "CC0"

\* C16: whatever limit parameter a request carries, the limit that the
\* handler passes to harvestCandidates is at least 1 and at most 20.
C16_LimitPositiveAtMostCap ==
  pc \in {"awaiting", "done", "responded"} => (limit >= 1 /\ limit <= 20)

\* The candidate at a position of the fulfilled results.
At(p) == results[p[1]].value[p[2]]

\* The positions of the returned candidates that are safe and well-formed.
ValidPositions ==
  {p \in ReturnedPositions : At(p).safe /\ RequiredFieldsPresent(At(p))}

Times(q, c) == Cardinality({i \in DOMAIN q : q[i] = c})

\* C20: when the safe, well-formed candidates returned number at most
\* 2 * limit image-eligible ones and at most limit others, the two buckets
\* hold each of them, field by field, as often as it was returned, the
\* image-eligible ones in the image bucket only and the others (link
\* candidates, and candidates of another kind whose license is not
\* render-allowed) in the link bucket only, and the buckets hold nothing else.
C20_PartitionComplete ==
  (/\ pc = "done"
   /\ Cardinality({p \in ValidPositions : ImageEligible(At(p))}) <= 2 * limit
   /\ Cardinality({p \in ValidPositions : ~ImageEligible(At(p))}) <= limit) =>
    /\ \A p \in ValidPositions :
         /\ Times(out.img, At(p)) + Times(out.lnk, At(p))
              = Cardinality({q \in ValidPositions : At(q) = At(p)})
         /\ ImageEligible(At(p)) => Times(out.lnk, At(p)) = 0
         /\ ~ImageEligible(At(p)) => Times(out.img, At(p)) = 0
    /\ Output \subseteq {At(p) : p \in ValidPositions}

C20_Witness ==
  /\ pc = "done"
  /\ Cardinality({p \in ValidPositions : ImageEligible(At(p))}) <= 2 * limit
  /\ Cardinality({p \in ValidPositions : ~ImageEligible(At(p))}) <= limit
  /\ \E c \in Range(out.lnk) : c.k # "link" /\ c.lic = "UNKNOWN"
  /\ \E c \in Range(out.lnk) : c.k = "link"
  /\ out.img # <<>>
  /\ \E p \in ReturnedPositions : ~At(p).safe

RECURSIVE factorial(_)
factorial(n) == IF n <= 1 THEN 1 ELSE n * factorial(n - 1)

\* b holds the elements of a, each as often as a does.
SameElements(a, b) ==
  /\ Len(a) = Len(b)
  /\ \A c \in Range(a) \cup Range(b) : Times(a, c) = Times(b, c)

\* The lists the call is about to merge, while it is at its await.
Merging == mergeResults(results, [img |-> <<>>, lnk |-> <<>>])

\* C21: shuffle returns a permutation of its argument and leaves the argument
\* as it was: a bucket that is within its cap holds the elements of the merged
\* list, each as often, and the merged list is still in the order of the
\* merge; and every permutation can come out: the draws of the random numbers
\* give as many different results, all of them permutations, as a list of
\* pairwise different elements has permutations.
C21_ShuffleIsFullPermutation ==
  /\ pc = "done" =>
       /\ allImages = Merging.img
       /\ allLinks = Merging.lnk
       /\ (limit >= 0 /\ Len(allImages) <= 2 * limit) => SameElements(allImages, out.img)
       /\ (limit >= 0 /\ Len(allLinks) <= limit) => SameElements(allLinks, out.lnk)
  /\ (pc = "awaiting" /\ \A i \in DOMAIN results : results[i].status # "pending") =>
       LET a == Merging.img
           shuffles == {shuffle(a, rnd) : rnd \in Draws(Len(a))}
       IN  /\ \A b \in shuffles : SameElements(a, b)
           /\ Cardinality(Range(a)) = Len(a) => Cardinality(shuffles) = factorial(Len(a))

C21_Witness ==
  /\ pc = "done"
  /\ Len(allImages) = 4
  /\ Cardinality(Range(allImages)) = 4
  /\ Len(out.img) = 4
  /\ out.img[1] = allImages[4]
  /\ out.img[4] = allImages[1]

\* A reply of the competing-cards endpoint that carries a CardsEnvelope.
Enveloped == pc = "replied" /\ reply.status = 200

\* C22: every CardsEnvelope the competing-cards endpoint returns for a
\* structurally valid packet, from a parsed model response or from the
\* fallback path, holds exactly two cards, and their classes k differ.
C22_TwoCardsOfDifferentClasses ==
  Enveloped =>
    /\ Len(reply.body.c) = 2
    /\ reply.body.c[1].k # reply.body.c[2].k

\* The limits lim kept by a card.
WithinLimits(card, lim) ==
  /\ Len(card.ttl) <= lim.ttl
  /\ Len(card.sub) <= lim.sub
  /\ Len(card.qt) <= lim.qt
  /\ Len(card.st) <= lim.st
  /\ Len(card.bg) <= lim.bg

\* The handler has called sanitizeCardSpec on every card of the response.
Sanitizing ==
  /\ Enveloped
  /\ ~promptThrows(packet)
  /\ message.arrives = "text"
  /\ message.text.shape = "json"
  /\ message.text.v = 1 /\ message.text.t = "cards" /\ message.text.c.isArray
  /\ \A i \in DOMAIN message.text.c.list : message.text.c.list[i].intact

\* C23: the spec sanitizeCardSpec returns keeps the limits of the packet:
\* ttl, sub and qt no longer than lim.ttl, lim.sub and lim.qt, at most
\* lim.st stats and lim.bg badges, also when the quote was replaced on an
\* unsafe personalization pattern.
C23_SanitizedWithinLimits ==
  Sanitizing =>
    \A i \in DOMAIN message.text.c.list :
      WithinLimits(sanitizeCardSpec(message.text.c.list[i], packet), packet.lim)

=============================================================================
